---- MODULE Spec2Model ----
(***************************************************************************)
(* Conditional validation engine of the ASIC business-name lodgement      *)
(* models (backend/apps/bn_lodge_application/models.py).                   *)
(*                                                                         *)
(* A BusinessEntityLodgeType is built from caller data.  pydantic first    *)
(* validates the fields (every nested associate, and inside it every       *)
(* representative, with their own "after" validators), collecting the      *)
(* field errors; only when there are none it runs the two "after"          *)
(* validators of the entity in definition order:                           *)
(* validate_owner_type_conditional_rules, validate_cross_field_relation-   *)
(* ships.  The first ValueError raised by a validator ends the run.        *)
(* An accepted record can be dumped and validated again (Revalidate).      *)
(*                                                                         *)
(* SpecIndividual is the validation of the address of an individual        *)
(* (backend/apps/common/models.py, IndividualLodgeType).                   *)
(***************************************************************************)
EXTENDS Integers, Sequences, FiniteSets, TLC

VARIABLES data, self, pc, i, errors, classified, round

vars == <<data, self, pc, i, errors, classified, round>>

(***************************************************************************)
(* Bounds of the explored inputs.                                          *)
(***************************************************************************)
MaxAssoc == 10
MaxReps == 2
\* Validations of one record: the first, and those of its dump.
MaxRounds == 2

(***************************************************************************)
(* Optional[T]: None is the empty tuple, a present value v is <<v>>.       *)
(* IsSet is Python's truth test of an Optional model / "is not None".      *)
(***************************************************************************)
None == <<>>
Some(v) == <<v>>
IsSet(x) == Len(x) > 0
Val(x) == x[1]

\* Python truth value of a str (a str is a sequence of characters).
Truthy(s) == Len(s) > 0

\* Python truth value of an Optional[str].
TruthyStr(x) == IsSet(x) /\ Truthy(Val(x))

Min(S) == CHOOSE m \in S : \A n \in S : m <= n

(***************************************************************************)
(* str.strip(): removes leading and trailing blanks.                       *)
(***************************************************************************)
RECURSIVE lstrip(_)
lstrip(s) == IF Len(s) > 0 /\ Head(s) = " " THEN lstrip(Tail(s)) ELSE s

RECURSIVE rstrip(_)
rstrip(s) == IF Len(s) > 0 /\ s[Len(s)] = " " THEN rstrip(SubSeq(s, 1, Len(s) - 1)) ELSE s

strip(s) == rstrip(lstrip(s))

(***************************************************************************)
(* OwnerType: the closed set of owner types the dispatch is keyed on.      *)
(***************************************************************************)
OwnerType == {"IND", "IB", "PTSH", "USTR", "JV"}

(***************************************************************************)
(* Errors.  A raised ValueError is a record: its rule code, the location   *)
(* of the failing nested model inside the validated data (pydantic's loc,  *)
(* list indices only, 0-based), the 1-based index a wrapper puts in its    *)
(* message (0: none) and the inner errors whose text str(e) a wrapper      *)
(* embeds.  A validator returns the sequence of the errors it raises:      *)
(* <<>> is "return self".                                                  *)
(***************************************************************************)
ValueError(code) == [code |-> code, loc |-> <<>>, index |-> 0, inner |-> <<>>]

Wrapped(code, n, e) == [code |-> code, loc |-> <<>>, index |-> n, inner |-> e]

\* pydantic prefixes the location of a nested model's errors with its index.
At(k, errs) == [n \in 1..Len(errs) |-> [errs[n] EXCEPT !.loc = <<k>> \o @]]

RECURSIVE Flatten(_)
Flatten(ss) == IF Len(ss) = 0 THEN <<>> ELSE Head(ss) \o Flatten(Tail(ss))

(***************************************************************************)
(* Construction of the leaf models from data.  ASICBaseModel sets          *)
(* str_strip_whitespace, so every str field is stored stripped.            *)
(***************************************************************************)
ASICBaseModel_str(s) == strip(s)

OptionalStr(x) == IF IsSet(x) THEN Some(ASICBaseModel_str(Val(x))) ELSE None

AbrEntity(d) ==
    [abn |-> d.abn, entityName |-> OptionalStr(d.entityName)]

PersonNameLodgeType(d) ==
    [givenNames |-> ASICBaseModel_str(d.givenNames),
     familyName |-> ASICBaseModel_str(d.familyName)]

IndividualLodgeType(d) == [name |-> PersonNameLodgeType(d.name)]

OptionalIndividual(x) == IF IsSet(x) THEN Some(IndividualLodgeType(Val(x))) ELSE None

OrganisationLodgeType(d) == [name |-> ASICBaseModel_str(d.name), acn |-> d.acn]

OptionalOrganisation(x) == IF IsSet(x) THEN Some(OrganisationLodgeType(Val(x))) ELSE None

(***************************************************************************)
(* PartnerAssociateLodgeType: a representative of an unincorporated        *)
(* partner.                                                                *)
(***************************************************************************)
PartnerAssociateLodgeType(d) ==
    [individual |-> OptionalIndividual(d.individual),
     organisation |-> OptionalOrganisation(d.organisation)]

\* validate_representative_exclusive with the ACN check made first.
validate_representative_exclusive_AcnFirst(rep) ==
    LET has_individual == IsSet(rep.individual)
        has_organisation == IsSet(rep.organisation)
    IN  IF IsSet(rep.organisation) /\ ~TruthyStr(Val(rep.organisation).acn)
          THEN <<ValueError("PARTNER_ASSOC_ORG_ACN")>>
        ELSE IF ~has_individual /\ ~has_organisation
          THEN <<ValueError("PARTNER_ASSOC_REQUIRED")>>
        ELSE IF has_individual /\ has_organisation
          THEN <<ValueError("PARTNER_ASSOC_EXCLUSIVE")>>
        ELSE <<>>

validate_representative_exclusive(rep) ==
    LET has_individual == IsSet(rep.individual)
        has_organisation == IsSet(rep.organisation)
    IN  IF ~has_individual /\ ~has_organisation
          THEN <<ValueError("PARTNER_ASSOC_REQUIRED")>>
        ELSE IF has_individual /\ has_organisation
          THEN <<ValueError("PARTNER_ASSOC_EXCLUSIVE")>>
        ELSE IF IsSet(rep.organisation) /\ ~TruthyStr(Val(rep.organisation).acn)
          THEN <<ValueError("PARTNER_ASSOC_ORG_ACN")>>
        ELSE <<>>

\* PartnerAssociateLodgeType.model_validate(data)
PartnerAssociate_model_validate(d) ==
    validate_representative_exclusive(PartnerAssociateLodgeType(d))

\* rep.model_dump(): the fields of the representative as a dict.
PartnerAssociate_model_dump(rep) ==
    [individual |-> rep.individual, organisation |-> rep.organisation]

\* AssociateLodgeType that fills in a missing ABN.
AssociateLodgeType_DefaultAbn(d) ==
    [abrEntity |-> [abn |-> Some([abn |-> "12345678901"]),
                    entityName |-> OptionalStr(d.abrEntity.entityName)],
     individual |-> OptionalIndividual(d.individual),
     organisation |-> OptionalOrganisation(d.organisation),
     partnerAssociate |->
        IF IsSet(d.partnerAssociate)
          THEN Some([j \in 1..Len(Val(d.partnerAssociate)) |->
                        PartnerAssociateLodgeType(Val(d.partnerAssociate)[j])])
          ELSE None]

(***************************************************************************)
(* AssociateLodgeType: a partner, trustee or joint-venture participant.    *)
(***************************************************************************)
AssociateLodgeType(d) ==
    [abrEntity |-> AbrEntity(d.abrEntity),
     individual |-> OptionalIndividual(d.individual),
     organisation |-> OptionalOrganisation(d.organisation),
     partnerAssociate |->
        IF IsSet(d.partnerAssociate)
          THEN Some([j \in 1..Len(Val(d.partnerAssociate)) |->
                        PartnerAssociateLodgeType(Val(d.partnerAssociate)[j])])
          ELSE None]

\* partner_classification that tests the individual alone first.
\* partner_classification that takes every organisation for unincorporated.
partner_classification_AlwaysUnincorporated(a) ==
    IF IsSet(a.individual) /\ ~IsSet(a.organisation) THEN "individual"
    ELSE IF IsSet(a.organisation) /\ ~IsSet(a.individual) THEN "unincorporated"
    ELSE "ASSOC_STRUCTURE"

partner_classification_IndividualFirst(a) ==
    IF IsSet(a.individual) THEN "individual"
    ELSE IF IsSet(a.organisation)
      THEN IF TruthyStr(Val(a.organisation).acn) THEN "incorporated"
           ELSE "unincorporated"
    ELSE "ASSOC_STRUCTURE"

\* The computed classification; "ASSOC_STRUCTURE" stands for the raise.
partner_classification(a) ==
    IF IsSet(a.individual) /\ ~IsSet(a.organisation) THEN "individual"
    ELSE IF IsSet(a.organisation) /\ ~IsSet(a.individual)
      THEN IF TruthyStr(Val(a.organisation).acn) THEN "incorporated"
           ELSE "unincorporated"
    ELSE "ASSOC_STRUCTURE"

requires_representatives(a) == partner_classification(a) = "unincorporated"

\* Python truth value of the Optional[List] partnerAssociate.
HasReps(a) == IsSet(a.partnerAssociate) /\ Len(Val(a.partnerAssociate)) > 0

\* The loop over the representatives: the first failing one raises.
ValidateEachRepresentative(a) ==
    LET reps == Val(a.partnerAssociate)
        redo(j) == PartnerAssociate_model_validate(PartnerAssociate_model_dump(reps[j]))
        bad == {j \in 1..Len(reps) : redo(j) # <<>>}
    IN  IF bad = {} THEN <<>>
        ELSE <<Wrapped("UNINC_REP_INVALID", Min(bad), redo(Min(bad)))>>

\* IndividualAssociateRules without its ABN check.
IndividualAssociateRules_AbnOptional(a) ==
    IF HasReps(a) THEN <<ValueError("IND_ASSOC_NO_REPS")>>
    ELSE <<>>

\* IndividualAssociateRules with the ABN check ahead of the representatives check.
IndividualAssociateRules_AbnFirst(a) ==
    IF ~IsSet(a.abrEntity.abn) THEN <<ValueError("IND_ASSOC_ABN")>>
    ELSE IF HasReps(a) THEN <<ValueError("IND_ASSOC_NO_REPS")>>
    ELSE <<>>

IndividualAssociateRules(a) ==
    IF HasReps(a) THEN <<ValueError("IND_ASSOC_NO_REPS")>>
    ELSE IF ~IsSet(a.abrEntity.abn) THEN <<ValueError("IND_ASSOC_ABN")>>
    ELSE <<>>

IncorporatedAssociateRules(a) ==
    IF HasReps(a) THEN <<ValueError("INC_ASSOC_NO_REPS")>>
    ELSE IF IsSet(a.organisation) /\ TruthyStr(Val(a.organisation).acn)
      THEN <<ValueError("INC_ASSOC_ACN")>>
    ELSE IF ~IsSet(a.abrEntity.abn) THEN <<ValueError("INC_ASSOC_ABN")>>
    ELSE <<>>

\* UnincorporatedAssociateRules without its check of the ABN.
UnincorporatedAssociateRules_AbnOptional(a) ==
    IF ~HasReps(a) THEN <<ValueError("UNINC_ASSOC_REPS_REQUIRED")>>
    ELSE IF IsSet(a.organisation) /\ TruthyStr(Val(a.organisation).acn)
      THEN <<ValueError("UNINC_ASSOC_NO_ACN")>>
    ELSE ValidateEachRepresentative(a)

UnincorporatedAssociateRules(a) ==
    IF ~HasReps(a) THEN <<ValueError("UNINC_ASSOC_REPS_REQUIRED")>>
    ELSE IF IsSet(a.organisation) /\ TruthyStr(Val(a.organisation).acn)
      THEN <<ValueError("UNINC_ASSOC_NO_ACN")>>
    ELSE IF ~IsSet(a.abrEntity.abn) THEN <<ValueError("UNINC_ASSOC_ABN")>>
    ELSE ValidateEachRepresentative(a)

validate_associate_classification_rules(a) ==
    LET classification == partner_classification(a)
    IN  IF classification = "ASSOC_STRUCTURE" THEN <<ValueError("ASSOC_STRUCTURE")>>
        ELSE IF classification = "individual" THEN IndividualAssociateRules(a)
        ELSE IF classification = "incorporated" THEN IncorporatedAssociateRules(a)
        ELSE UnincorporatedAssociateRules(a)

\* The errors of the partnerAssociate field: every representative is
\* validated and all their errors are collected.
PartnerAssociateFieldErrors(d) ==
    IF IsSet(d.partnerAssociate)
      THEN Flatten([j \in 1..Len(Val(d.partnerAssociate)) |->
                      At(j - 1, PartnerAssociate_model_validate(Val(d.partnerAssociate)[j]))])
      ELSE <<>>

\* AssociateLodgeType.model_validate(data): the field errors, or, when
\* there are none, what the "after" validator raises.
Associate_model_validate(d) ==
    IF PartnerAssociateFieldErrors(d) # <<>> THEN PartnerAssociateFieldErrors(d)
    ELSE validate_associate_classification_rules(AssociateLodgeType(d))

\* Associate_model_dump that leaves the representatives out.
Associate_model_dump_WithoutRepresentatives(a) ==
    [abrEntity |-> a.abrEntity,
     individual |-> a.individual,
     organisation |-> a.organisation,
     partnerAssociate |-> None,
     partner_classification |-> partner_classification(a),
     requires_representatives |-> requires_representatives(a)]

\* partner.model_dump(): the fields plus the two computed fields.
Associate_model_dump(a) ==
    [abrEntity |-> a.abrEntity,
     individual |-> a.individual,
     organisation |-> a.organisation,
     partnerAssociate |-> a.partnerAssociate,
     partner_classification |-> partner_classification(a),
     requires_representatives |-> requires_representatives(a)]

(***************************************************************************)
(* BusinessEntityLodgeType: the root record.                               *)
(***************************************************************************)
BusinessEntityLodgeType(d) ==
    [ownerType |-> d.ownerType,
     abrEntity |-> IF IsSet(d.abrEntity) THEN Some(AbrEntity(Val(d.abrEntity))) ELSE None,
     abnExemption |-> d.abnExemption,
     individual |-> OptionalIndividual(d.individual),
     organisation |-> OptionalOrganisation(d.organisation),
     associate |->
        IF IsSet(d.associate)
          THEN Some([k \in 1..Len(Val(d.associate)) |-> AssociateLodgeType(Val(d.associate)[k])])
          ELSE None]

\* record.model_dump(): the fields as a dict, the nested models dumped.
BusinessEntity_model_dump(e) ==
    [ownerType |-> e.ownerType,
     abrEntity |-> e.abrEntity,
     abnExemption |-> e.abnExemption,
     individual |-> e.individual,
     organisation |-> e.organisation,
     associate |->
        IF IsSet(e.associate)
          THEN Some([k \in 1..Len(Val(e.associate)) |->
                        Associate_model_dump(Val(e.associate)[k])])
          ELSE None]

\* len(self.associate) of a record whose list is set.
NumAssociates(e) == IF IsSet(e.associate) THEN Len(Val(e.associate)) ELSE 0

\* "self.associate and len(self.associate) > 0"
HasAssociates(e) == IsSet(e.associate) /\ Len(Val(e.associate)) > 0

PTSH_MAX_PARTNERS == 9
JV_MIN_PARTNERS == 2

\* RuleSetIND without its check of the associate list.
RuleSetIND_AssociatesAllowed(e) ==
    IF ~IsSet(e.abrEntity) THEN <<ValueError("IND_ABR_REQUIRED")>>
    ELSE IF ~IsSet(e.individual) THEN <<ValueError("IND_INDIVIDUAL_REQUIRED")>>
    ELSE IF IsSet(e.organisation) THEN <<ValueError("IND_NO_ORGANISATION")>>
    ELSE <<>>

\* RULE SET 1: IND
RuleSetIND(e) ==
    IF ~IsSet(e.abrEntity) THEN <<ValueError("IND_ABR_REQUIRED")>>
    ELSE IF ~IsSet(e.individual) THEN <<ValueError("IND_INDIVIDUAL_REQUIRED")>>
    ELSE IF HasAssociates(e) THEN <<ValueError("IND_NO_ASSOCIATES")>>
    ELSE IF IsSet(e.organisation) THEN <<ValueError("IND_NO_ORGANISATION")>>
    ELSE <<>>

\* RuleSetIB without its check of the ACN.
RuleSetIB_AcnOptional(e) ==
    IF ~IsSet(e.abrEntity) THEN <<ValueError("IB_ABR_REQUIRED")>>
    ELSE IF ~IsSet(e.organisation) THEN <<ValueError("IB_ORGANISATION_REQUIRED")>>
    ELSE IF HasAssociates(e) THEN <<ValueError("IB_NO_ASSOCIATES")>>
    ELSE IF IsSet(e.individual) THEN <<ValueError("IB_NO_INDIVIDUAL")>>
    ELSE <<>>

\* RULE SET 2: IB
RuleSetIB(e) ==
    IF ~IsSet(e.abrEntity) THEN <<ValueError("IB_ABR_REQUIRED")>>
    ELSE IF ~IsSet(e.organisation) THEN <<ValueError("IB_ORGANISATION_REQUIRED")>>
    ELSE IF HasAssociates(e) THEN <<ValueError("IB_NO_ASSOCIATES")>>
    ELSE IF IsSet(e.individual) THEN <<ValueError("IB_NO_INDIVIDUAL")>>
    ELSE IF IsSet(e.organisation) /\ ~TruthyStr(Val(e.organisation).acn)
      THEN <<ValueError("IB_ACN_REQUIRED")>>
    ELSE <<>>

\* RuleSetPTSH with the bound on the partners off by one (>= for >).
RuleSetPTSH_MaxOffByOne(e) ==
    IF ~IsSet(e.abrEntity) THEN <<ValueError("PTSH_ABR_REQUIRED")>>
    ELSE IF ~IsSet(e.organisation) THEN <<ValueError("PTSH_ORGANISATION_REQUIRED")>>
    ELSE IF ~HasAssociates(e) THEN <<ValueError("PTSH_PARTNERS_REQUIRED")>>
    ELSE IF NumAssociates(e) >= PTSH_MAX_PARTNERS THEN <<ValueError("PTSH_MAX_PARTNERS")>>
    ELSE IF IsSet(e.individual) THEN <<ValueError("PTSH_NO_INDIVIDUAL")>>
    ELSE IF TruthyStr(Val(e.organisation).acn) THEN <<ValueError("PTSH_NO_ACN")>>
    ELSE <<>>

\* RULE SET 3: PTSH, up to the validation of each partner
RuleSetPTSH(e) ==
    IF ~IsSet(e.abrEntity) THEN <<ValueError("PTSH_ABR_REQUIRED")>>
    ELSE IF ~IsSet(e.organisation) THEN <<ValueError("PTSH_ORGANISATION_REQUIRED")>>
    ELSE IF ~HasAssociates(e) THEN <<ValueError("PTSH_PARTNERS_REQUIRED")>>
    ELSE IF NumAssociates(e) > PTSH_MAX_PARTNERS THEN <<ValueError("PTSH_MAX_PARTNERS")>>
    ELSE IF IsSet(e.individual) THEN <<ValueError("PTSH_NO_INDIVIDUAL")>>
    ELSE IF TruthyStr(Val(e.organisation).acn) THEN <<ValueError("PTSH_NO_ACN")>>
    ELSE <<>>

\* RULE SET 4: USTR
\* RuleSetUSTR that asks for an ABN unless the record is exempt.
RuleSetUSTR_AbnOrExempt(e) ==
    IF ~IsSet(e.abrEntity) THEN <<ValueError("USTR_ABR_REQUIRED")>>
    ELSE IF ~IsSet(Val(e.abrEntity).abn) /\ e.abnExemption # Some(TRUE)
      THEN <<ValueError("USTR_ABR_REQUIRED")>>
    ELSE IF ~IsSet(e.organisation) THEN <<ValueError("USTR_ORGANISATION_REQUIRED")>>
    ELSE IF ~HasAssociates(e) THEN <<ValueError("USTR_TRUSTEES_REQUIRED")>>
    ELSE IF IsSet(e.individual) THEN <<ValueError("USTR_NO_INDIVIDUAL")>>
    ELSE <<>>

RuleSetUSTR(e) ==
    IF ~IsSet(e.abrEntity) THEN <<ValueError("USTR_ABR_REQUIRED")>>
    ELSE IF ~IsSet(e.organisation) THEN <<ValueError("USTR_ORGANISATION_REQUIRED")>>
    ELSE IF ~HasAssociates(e) THEN <<ValueError("USTR_TRUSTEES_REQUIRED")>>
    ELSE IF IsSet(e.individual) THEN <<ValueError("USTR_NO_INDIVIDUAL")>>
    ELSE <<>>

\* has_abn that takes the presence of abrEntity for the presence of an ABN.
has_abn_AbrEntityOnly(e) == IsSet(e.abrEntity)

\* Special JV ABN logic
has_abn(e) == IsSet(e.abrEntity) /\ IsSet(Val(e.abrEntity).abn)

is_exempt(e) == IsSet(e.abnExemption) /\ Val(e.abnExemption) = TRUE

\* When JV is ABN exempt, all partners must have ABN: the first partner
\* without one raises.
ExemptPartnersHaveAbn(e) ==
    LET bad == {k \in 1..NumAssociates(e) : ~IsSet(Val(e.associate)[k].abrEntity.abn)}
    IN  IF is_exempt(e) /\ bad # {}
          THEN <<Wrapped("JV_EXEMPT_PARTNER_ABN", Min(bad), <<>>)>>
          ELSE <<>>

\* RuleSetJV with the minimum of partners off by one (< 1 for < 2).
RuleSetJV_MinOffByOne(e) ==
    IF ~IsSet(e.organisation) THEN <<ValueError("JV_ORGANISATION_REQUIRED")>>
    ELSE IF ~HasAssociates(e) THEN <<ValueError("JV_PARTNERS_REQUIRED")>>
    ELSE IF NumAssociates(e) < JV_MIN_PARTNERS - 1 THEN <<ValueError("JV_MIN_PARTNERS")>>
    ELSE IF ~has_abn(e) /\ ~is_exempt(e) THEN <<ValueError("JV_ABN_OR_EXEMPT")>>
    ELSE IF has_abn(e) /\ is_exempt(e) THEN <<ValueError("JV_ABN_AND_EXEMPT_CONFLICT")>>
    ELSE IF TruthyStr(Val(e.organisation).acn) THEN <<ValueError("JV_NO_ACN")>>
    ELSE IF IsSet(e.individual) THEN <<ValueError("JV_NO_INDIVIDUAL")>>
    ELSE ExemptPartnersHaveAbn(e)

\* RuleSetJV without its check of the top-level ACN.
RuleSetJV_AcnAllowed(e) ==
    IF ~IsSet(e.organisation) THEN <<ValueError("JV_ORGANISATION_REQUIRED")>>
    ELSE IF ~HasAssociates(e) THEN <<ValueError("JV_PARTNERS_REQUIRED")>>
    ELSE IF NumAssociates(e) < JV_MIN_PARTNERS THEN <<ValueError("JV_MIN_PARTNERS")>>
    ELSE IF ~has_abn(e) /\ ~is_exempt(e) THEN <<ValueError("JV_ABN_OR_EXEMPT")>>
    ELSE IF has_abn(e) /\ is_exempt(e) THEN <<ValueError("JV_ABN_AND_EXEMPT_CONFLICT")>>
    ELSE IF IsSet(e.individual) THEN <<ValueError("JV_NO_INDIVIDUAL")>>
    ELSE ExemptPartnersHaveAbn(e)

\* RULE SET 5: JV, up to the validation of each partner
\* RuleSetJV with the no-individual check ahead of the no-ACN check.
RuleSetJV_IndividualBeforeAcn(e) ==
    IF ~IsSet(e.organisation) THEN <<ValueError("JV_ORGANISATION_REQUIRED")>>
    ELSE IF ~HasAssociates(e) THEN <<ValueError("JV_PARTNERS_REQUIRED")>>
    ELSE IF NumAssociates(e) < JV_MIN_PARTNERS THEN <<ValueError("JV_MIN_PARTNERS")>>
    ELSE IF ~has_abn(e) /\ ~is_exempt(e) THEN <<ValueError("JV_ABN_OR_EXEMPT")>>
    ELSE IF has_abn(e) /\ is_exempt(e) THEN <<ValueError("JV_ABN_AND_EXEMPT_CONFLICT")>>
    ELSE IF IsSet(e.individual) THEN <<ValueError("JV_NO_INDIVIDUAL")>>
    ELSE IF TruthyStr(Val(e.organisation).acn) THEN <<ValueError("JV_NO_ACN")>>
    ELSE ExemptPartnersHaveAbn(e)

RuleSetJV(e) ==
    IF ~IsSet(e.organisation) THEN <<ValueError("JV_ORGANISATION_REQUIRED")>>
    ELSE IF ~HasAssociates(e) THEN <<ValueError("JV_PARTNERS_REQUIRED")>>
    ELSE IF NumAssociates(e) < JV_MIN_PARTNERS THEN <<ValueError("JV_MIN_PARTNERS")>>
    ELSE IF ~has_abn(e) /\ ~is_exempt(e) THEN <<ValueError("JV_ABN_OR_EXEMPT")>>
    ELSE IF has_abn(e) /\ is_exempt(e) THEN <<ValueError("JV_ABN_AND_EXEMPT_CONFLICT")>>
    ELSE IF TruthyStr(Val(e.organisation).acn) THEN <<ValueError("JV_NO_ACN")>>
    ELSE IF IsSet(e.individual) THEN <<ValueError("JV_NO_INDIVIDUAL")>>
    ELSE ExemptPartnersHaveAbn(e)

\* OwnerTypeRuleSet that sends USTR records to the PTSH rule set.
OwnerTypeRuleSet_UstrAsPtsh(e) ==
    IF e.ownerType = "IND" THEN RuleSetIND(e)
    ELSE IF e.ownerType = "IB" THEN RuleSetIB(e)
    ELSE IF e.ownerType \in {"PTSH", "USTR"} THEN RuleSetPTSH(e)
    ELSE IF e.ownerType = "JV" THEN RuleSetJV(e)
    ELSE <<>>

\* The dispatch on ownerType.
OwnerTypeRuleSet(e) ==
    IF e.ownerType = "IND" THEN RuleSetIND(e)
    ELSE IF e.ownerType = "IB" THEN RuleSetIB(e)
    ELSE IF e.ownerType = "PTSH" THEN RuleSetPTSH(e)
    ELSE IF e.ownerType = "USTR" THEN RuleSetUSTR(e)
    ELSE IF e.ownerType = "JV" THEN RuleSetJV(e)
    ELSE <<>>

\* The rule sets that end with _validate_partners_with_dynamic_classification.
ValidatesPartners(e) == e.ownerType \in {"PTSH", "JV"}

\* One iteration of _validate_partners_with_dynamic_classification(context):
\* partner k is validated again from its dump; a failure is wrapped.
ValidatePartnerAgain(context, e, k) ==
    LET redo == Associate_model_validate(Associate_model_dump(Val(e.associate)[k]))
    IN  IF redo = <<>> THEN <<>>
        ELSE <<Wrapped(IF context = "PTSH" THEN "PTSH_PARTNER_INVALID"
                                            ELSE "JV_PARTNER_INVALID", k, redo)>>

\* f"{given_names} {family_name}"
FullName(name) == name.givenNames \o <<" ">> \o name.familyName

\* NameMismatch that compares empty names as well.
NameMismatch_EmptyCounts(e) ==
    /\ IsSet(e.abrEntity)
    /\ IsSet(e.organisation)
    /\ IsSet(Val(e.abrEntity).entityName)
    /\ strip(Val(Val(e.abrEntity).entityName)) # strip(Val(e.organisation).name)

NameMismatch(e) ==
    /\ IsSet(e.abrEntity)
    /\ IsSet(e.organisation)
    /\ LET abr_name == Val(e.abrEntity).entityName
           org_name == Val(e.organisation).name
       IN  /\ TruthyStr(abr_name)
           /\ Truthy(org_name)
           /\ strip(Val(abr_name)) # strip(org_name)

\* IndividualNameMismatch that does not trim the concatenated name.
IndividualNameMismatch_Untrimmed(e) ==
    /\ IsSet(e.individual)
    /\ IsSet(e.abrEntity)
    /\ e.ownerType = "IND"
    /\ LET full_name == FullName(Val(e.individual).name)
           abr_name == Val(e.abrEntity).entityName
       IN  /\ Truthy(full_name)
           /\ TruthyStr(abr_name)
           /\ full_name # strip(Val(abr_name))

IndividualNameMismatch(e) ==
    /\ IsSet(e.individual)
    /\ IsSet(e.abrEntity)
    /\ e.ownerType = "IND"
    /\ LET full_name == strip(FullName(Val(e.individual).name))
           abr_name == Val(e.abrEntity).entityName
       IN  /\ Truthy(full_name)
           /\ TruthyStr(abr_name)
           /\ full_name # strip(Val(abr_name))

\* validate_cross_field_relationships that asks for an entity name whenever
\* there is a name to compare it with.
validate_cross_field_relationships_EntityNameRequired(e) ==
    IF NameMismatch(e) THEN <<ValueError("NAME_MISMATCH")>>
    ELSE IF /\ IsSet(e.abrEntity) /\ IsSet(e.organisation)
            /\ ~TruthyStr(Val(e.abrEntity).entityName)
            /\ Truthy(Val(e.organisation).name)
      THEN <<ValueError("NAME_MISMATCH")>>
    ELSE IF IndividualNameMismatch(e) THEN <<ValueError("INDIVIDUAL_NAME_MISMATCH")>>
    ELSE IF /\ IsSet(e.individual) /\ IsSet(e.abrEntity) /\ e.ownerType = "IND"
            /\ ~TruthyStr(Val(e.abrEntity).entityName)
      THEN <<ValueError("INDIVIDUAL_NAME_MISMATCH")>>
    ELSE <<>>

validate_cross_field_relationships(e) ==
    IF NameMismatch(e) THEN <<ValueError("NAME_MISMATCH")>>
    ELSE IF IndividualNameMismatch(e) THEN <<ValueError("INDIVIDUAL_NAME_MISMATCH")>>
    ELSE <<>>

(***************************************************************************)
(* The caller data the validation is explored on.                          *)
(***************************************************************************)
ABN == [abn |-> "12345678901"]
ACN == <<"1", "2", "3", "4", "5", "6", "7", "8", "9">>

NameAB == <<"a", " ", "b">>
NameC == <<"c">>

AbnData == {None, Some(ABN)}
AcnData == {None, Some(ACN)}
EntityNameData == {None, Some(NameAB), Some(<<" ">> \o NameAB), Some(NameC)}

AbrEntityData == [abn : AbnData, entityName : EntityNameData]

PersonAB == [name |-> [givenNames |-> <<"a">>, familyName |-> <<"b", " ">>]]
PersonC == [name |-> [givenNames |-> <<"c">>, familyName |-> <<>>]]
IndividualData == {PersonAB, PersonC}

OrganisationData == [name : {NameAB, NameC \o <<" ">>}, acn : AcnData]

Opt(S) == {None} \cup {Some(v) : v \in S}

\* Representatives: every combination of individual / organisation / ACN.
RepData == [individual : Opt({PersonAB}),
            organisation : Opt([name : {NameAB}, acn : AcnData])]

GoodRep == [individual |-> Some(PersonAB), organisation |-> None]

\* Lists of n representatives: all the same, or all good but one.
RepLists(n) ==
    {[j \in 1..n |-> r] : r \in RepData}
      \cup {[j \in 1..n |-> IF j = p THEN r ELSE GoodRep] : p \in 1..n, r \in RepData}

PartnerAssociateData ==
    {None} \cup UNION {{Some(l) : l \in RepLists(n)} : n \in 0..MaxReps}

AssocAbrData == [abn : AbnData, entityName : {None}]

AssociateData ==
    [abrEntity : AssocAbrData,
     individual : Opt({PersonAB}),
     organisation : Opt([name : {NameC}, acn : AcnData]),
     partnerAssociate : PartnerAssociateData]

SimpleAssociateData ==
    [abrEntity : AssocAbrData,
     individual : Opt({PersonAB}),
     organisation : Opt([name : {NameC}, acn : AcnData]),
     partnerAssociate : {None, Some(<<GoodRep>>)}]

IndividualPartner ==
    [abrEntity |-> [abn |-> Some(ABN), entityName |-> None],
     individual |-> Some(PersonAB), organisation |-> None, partnerAssociate |-> None]

UnincorporatedPartner ==
    [abrEntity |-> [abn |-> Some(ABN), entityName |-> None],
     individual |-> None,
     organisation |-> Some([name |-> NameC, acn |-> None]),
     partnerAssociate |-> Some(<<GoodRep>>)]

IncorporatedPartner ==
    [abrEntity |-> [abn |-> Some(ABN), entityName |-> None],
     individual |-> None,
     organisation |-> Some([name |-> NameC, acn |-> Some(ACN)]),
     partnerAssociate |-> None]

\* Lists of n associates: all IndividualPartner but one, drawn from S.
AssociateLists(n, S) ==
    {[k \in 1..n |-> IF k = p THEN a ELSE IndividualPartner] : p \in 1..n, a \in S}

\* The same, the one drawn from S being the first or the last.
LongAssociateLists(n, S) ==
    {[k \in 1..n |-> IF k = p THEN a ELSE IndividualPartner] : p \in {1, n}, a \in S}

\* Every shape of the root fields, with a few short associate lists.
RootInputs ==
    [ownerType : OwnerType,
     abrEntity : Opt(AbrEntityData),
     abnExemption : Opt(BOOLEAN),
     individual : Opt(IndividualData),
     organisation : Opt(OrganisationData),
     associate : {None, Some(<<>>), Some(<<IndividualPartner>>),
                  Some(<<UnincorporatedPartner, IndividualPartner>>),
                  Some(<<IncorporatedPartner, IndividualPartner>>)}]

\* Root fields that fit the owner type, except possibly for the ABN and the
\* exemption, with every shape of one associate in a list of 1 .. MaxAssoc.
PartnerInputs ==
    {[ownerType |-> t,
      abrEntity |-> abr,
      abnExemption |-> x,
      individual |-> IF t = "IND" THEN Some(PersonAB) ELSE None,
      organisation |-> IF t = "IND" THEN None
                       ELSE Some([name |-> NameAB,
                                  acn |-> IF t = "IB" THEN Some(ACN) ELSE None]),
      associate |-> Some(l)] :
        t \in OwnerType,
        abr \in Opt([abn : AbnData, entityName : {Some(NameAB)}]),
        x \in Opt(BOOLEAN),
        l \in AssociateLists(1, AssociateData)
                \cup AssociateLists(2, AssociateData)
                \cup UNION {LongAssociateLists(n, SimpleAssociateData) : n \in 3..MaxAssoc}}

\* Names: empty, blank, plain, in another case, with surrounding blanks.
NameData == {<<>>, <<" ">>, NameAB, <<"A", " ", "b">>, <<" ", "a", " ", "b", " ">>}

PersonEmpty == [name |-> [givenNames |-> <<>>, familyName |-> <<" ">>]]
PersonUpperAB == [name |-> [givenNames |-> <<"A">>, familyName |-> <<"b">>]]

\* Root fields that fit the owner type, with every combination of names.
NameInputs ==
    {[ownerType |-> t,
      abrEntity |-> Some([abn |-> Some(ABN), entityName |-> en]),
      abnExemption |-> None,
      individual |-> IF t = "IND" THEN Some(p) ELSE None,
      organisation |-> IF t = "IND" THEN None
                       ELSE Some([name |-> on,
                                  acn |-> IF t = "IB" THEN Some(ACN) ELSE None]),
      associate |-> IF t \in {"IND", "IB"} THEN None
                    ELSE IF t = "JV" THEN Some(<<IndividualPartner, IndividualPartner>>)
                    ELSE Some(<<IndividualPartner>>)] :
        t \in OwnerType,
        en \in Opt(NameData),
        on \in NameData,
        p \in {PersonAB, PersonC, PersonEmpty, PersonUpperAB}}

OrganisationRep ==
    [individual |-> None, organisation |-> Some([name |-> NameAB, acn |-> Some(ACN)])]

TwoRepsPartner ==
    [abrEntity |-> [abn |-> Some(ABN), entityName |-> None],
     individual |-> None,
     organisation |-> Some([name |-> NameAB, acn |-> None]),
     partnerAssociate |-> Some(<<OrganisationRep, GoodRep>>)]

\* Records with several unincorporated partners among individual ones.
SummaryInputs ==
    {[ownerType |-> t,
      abrEntity |-> Some([abn |-> Some(ABN), entityName |-> Some(NameAB)]),
      abnExemption |-> None,
      individual |-> None,
      organisation |-> Some([name |-> NameAB, acn |-> None]),
      associate |-> Some(l)] :
        t \in {"PTSH", "USTR", "JV"},
        l \in {<<UnincorporatedPartner, IndividualPartner, TwoRepsPartner>>,
               <<TwoRepsPartner, UnincorporatedPartner>>,
               <<IndividualPartner, TwoRepsPartner, UnincorporatedPartner,
                 IndividualPartner>>}}

Inputs == RootInputs \cup PartnerInputs \cup NameInputs \cup SummaryInputs

(***************************************************************************)
(* The summaries of a validated record.  A dict is a record; a str is a    *)
(* sequence of characters.                                                 *)
(***************************************************************************)
get_primary_name(a) ==
    IF IsSet(a.individual) THEN strip(FullName(Val(a.individual).name))
    ELSE IF IsSet(a.organisation) THEN Val(a.organisation).name
    ELSE <<"Unknown Associate">>

RECURSIVE RepresentativeEntries(_)
\* The loop of get_representative_summary over the representatives.
RepresentativeEntries(reps) ==
    IF reps = <<>> THEN <<>>
    ELSE LET rep == Head(reps)
         IN  (IF IsSet(rep.individual)
                THEN <<[type |-> "individual",
                        name |-> strip(FullName(Val(rep.individual).name))]>>
              ELSE IF IsSet(rep.organisation)
                THEN <<[type |-> "organisation",
                        name |-> Val(rep.organisation).name,
                        acn |-> Val(rep.organisation).acn]>>
              ELSE <<>>)
             \o RepresentativeEntries(Tail(reps))

get_representative_summary(a) ==
    IF ~requires_representatives(a) THEN [has_representatives |-> FALSE]
    ELSE [has_representatives |-> TRUE,
          representative_count |-> IF HasReps(a) THEN Len(Val(a.partnerAssociate)) ELSE 0,
          representatives |-> IF HasReps(a)
                                THEN RepresentativeEntries(Val(a.partnerAssociate))
                                ELSE <<>>]

RECURSIVE UnincorporatedDetails(_, _)
\* The entries appended to unincorporated_details by the first k partners.
UnincorporatedDetails(partners, k) ==
    IF k = 0 THEN <<>>
    ELSE UnincorporatedDetails(partners, k - 1)
         \o (IF partner_classification(partners[k]) = "unincorporated"
               THEN <<[partner_index |-> k - 1,
                       partner_name |-> get_primary_name(partners[k]),
                       representatives |-> get_representative_summary(partners[k])]>>
               ELSE <<>>)

\* get_partner_classification_summary that puts each new entry at the front
\* of unincorporated_details.
get_partner_classification_summary_Prepend(e) ==
    IF ~HasAssociates(e) THEN [total_partners |-> 0]
    ELSE LET partners == Val(e.associate)
             count(c) == Cardinality({k \in 1..Len(partners) :
                                         partner_classification(partners[k]) = c})
             details == UnincorporatedDetails(partners, Len(partners))
         IN  IF count("ASSOC_STRUCTURE") > 0 THEN ValueError("ASSOC_STRUCTURE")
             ELSE [total_partners |-> Len(partners),
                   individual_partners |-> count("individual"),
                   incorporated_partners |-> count("incorporated"),
                   unincorporated_partners |-> count("unincorporated"),
                   unincorporated_details |->
                      [n \in 1..Len(details) |-> details[Len(details) + 1 - n]]]

get_partner_classification_summary(e) ==
    IF ~HasAssociates(e) THEN [total_partners |-> 0]
    ELSE LET partners == Val(e.associate)
             count(c) == Cardinality({k \in 1..Len(partners) :
                                         partner_classification(partners[k]) = c})
         IN  IF count("ASSOC_STRUCTURE") > 0 THEN ValueError("ASSOC_STRUCTURE")
             ELSE [total_partners |-> Len(partners),
                   individual_partners |-> count("individual"),
                   incorporated_partners |-> count("incorporated"),
                   unincorporated_partners |-> count("unincorporated"),
                   unincorporated_details |->
                      UnincorporatedDetails(partners, Len(partners))]

(***************************************************************************)
(* The validation of one record, BusinessEntityLodgeType.model_validate.   *)
(***************************************************************************)
Init ==
    /\ data \in Inputs
    /\ self = None
    /\ pc = "fields"
    /\ i = 1
    /\ errors = <<>>
    /\ classified = <<>>
    /\ round = 1

\* The classification the associate's validator computes first
\* ("skipped": field errors kept the validator from running).
Classified(d) ==
    IF PartnerAssociateFieldErrors(d) # <<>> THEN "skipped"
    ELSE partner_classification(AssociateLodgeType(d))

\* Field "associate": the next item of the list is validated as an
\* AssociateLodgeType and its errors are collected.
ValidateAssociateField ==
    /\ pc = "fields"
    /\ IsSet(data.associate)
    /\ i <= Len(Val(data.associate))
    /\ errors' = errors \o At(i - 1, Associate_model_validate(Val(data.associate)[i]))
    /\ classified' = Append(classified, Classified(Val(data.associate)[i]))
    /\ i' = i + 1
    /\ UNCHANGED <<data, self, pc, round>>

\* FieldsValidated that runs the owner-type rules before looking at the
\* errors of the fields.
FieldsValidated_RulesFirst ==
    /\ pc = "fields"
    /\ IsSet(data.associate) => i > Len(Val(data.associate))
    /\ LET raised == OwnerTypeRuleSet(BusinessEntityLodgeType(data))
       IN  IF raised # <<>>
             THEN /\ errors' = raised
                  /\ self' = self
                  /\ pc' = "done"
           ELSE IF errors = <<>>
             THEN /\ self' = Some(BusinessEntityLodgeType(data))
                  /\ pc' = "owner_type_rules"
                  /\ errors' = errors
           ELSE /\ self' = self
                /\ pc' = "done"
                /\ errors' = errors
    /\ UNCHANGED <<data, i, classified, round>>

\* All fields are validated: with field errors the validation fails with
\* them, otherwise the instance exists and its validators run.
FieldsValidated ==
    /\ pc = "fields"
    /\ IsSet(data.associate) => i > Len(Val(data.associate))
    /\ IF errors = <<>>
         THEN /\ self' = Some(BusinessEntityLodgeType(data))
              /\ pc' = "owner_type_rules"
         ELSE /\ self' = self
              /\ pc' = "done"
    /\ UNCHANGED <<data, i, errors, classified, round>>

\* ValidateOwnerTypeRules that looks at the names first.
ValidateOwnerTypeRules_NamesFirst ==
    /\ pc = "owner_type_rules"
    /\ LET raised == IF validate_cross_field_relationships(Val(self)) # <<>>
                       THEN validate_cross_field_relationships(Val(self))
                       ELSE OwnerTypeRuleSet(Val(self))
       IN  IF raised # <<>>
             THEN /\ errors' = raised
                  /\ pc' = "done"
                  /\ i' = i
           ELSE IF ValidatesPartners(Val(self))
             THEN /\ pc' = "partners"
                  /\ i' = 1
                  /\ errors' = errors
           ELSE /\ pc' = "cross_field"
                /\ i' = i
                /\ errors' = errors
    /\ UNCHANGED <<data, self, classified, round>>

\* validate_owner_type_conditional_rules, up to the loop over the partners.
ValidateOwnerTypeRules ==
    /\ pc = "owner_type_rules"
    /\ LET raised == OwnerTypeRuleSet(Val(self))
       IN  IF raised # <<>>
             THEN /\ errors' = raised
                  /\ pc' = "done"
                  /\ i' = i
           ELSE IF ValidatesPartners(Val(self))
             THEN /\ pc' = "partners"
                  /\ i' = 1
                  /\ errors' = errors
           ELSE /\ pc' = "cross_field"
                /\ i' = i
                /\ errors' = errors
    /\ UNCHANGED <<data, self, classified, round>>

\* ValidatePartner that stays on a partner that passes.
ValidatePartner_NoAdvance ==
    /\ pc = "partners"
    /\ IsSet(Val(self).associate)
    /\ i <= Len(Val(Val(self).associate))
    /\ LET raised == ValidatePartnerAgain(Val(self).ownerType, Val(self), i)
       IN  IF raised # <<>>
             THEN /\ errors' = raised
                  /\ pc' = "done"
                  /\ i' = i
             ELSE /\ errors' = errors
                  /\ pc' = pc
                  /\ i' = i
    /\ UNCHANGED <<data, self, classified, round>>

\* One iteration of the loop of _validate_partners_with_dynamic_classification.
ValidatePartner ==
    /\ pc = "partners"
    /\ IsSet(Val(self).associate)
    /\ i <= Len(Val(Val(self).associate))
    /\ LET raised == ValidatePartnerAgain(Val(self).ownerType, Val(self), i)
       IN  IF raised # <<>>
             THEN /\ errors' = raised
                  /\ pc' = "done"
                  /\ i' = i
             ELSE /\ errors' = errors
                  /\ pc' = pc
                  /\ i' = i + 1
    /\ UNCHANGED <<data, self, classified, round>>

\* The loop is over (or the list is empty): _validate_associate_consistency
\* does nothing and the validator returns self.
PartnersValidated ==
    /\ pc = "partners"
    /\ IsSet(Val(self).associate) => i > Len(Val(Val(self).associate))
    /\ pc' = "cross_field"
    /\ UNCHANGED <<data, self, i, errors, classified, round>>

\* validate_cross_field_relationships: the last validator.
ValidateCrossField ==
    /\ pc = "cross_field"
    /\ errors' = validate_cross_field_relationships(Val(self))
    /\ pc' = "done"
    /\ UNCHANGED <<data, self, i, classified, round>>

\* The accepted record is validated again from its dump:
\* BusinessEntityLodgeType.model_validate(record.model_dump()).
Revalidate ==
    /\ pc = "done"
    /\ errors = <<>>
    /\ round < MaxRounds
    /\ data' = BusinessEntity_model_dump(Val(self))
    /\ self' = None
    /\ pc' = "fields"
    /\ i' = 1
    /\ classified' = <<>>
    /\ round' = round + 1
    /\ UNCHANGED errors

Next ==
    \/ ValidateAssociateField
    \/ FieldsValidated
    \/ ValidateOwnerTypeRules
    \/ ValidatePartner
    \/ PartnersValidated
    \/ ValidateCrossField
    \/ Revalidate

Spec == Init /\ [][Next]_vars

\* Records for the properties of progress: every combination of names
\* for every owner type, and partnerships, trusts and joint ventures with
\* every shape of one associate, alone or in a list of MaxAssoc - 1 or
\* MaxAssoc.
ProgressInputs ==
    NameInputs \cup
    {[ownerType |-> t,
      abrEntity |-> Some([abn |-> Some(ABN), entityName |-> Some(NameAB)]),
      abnExemption |-> None,
      individual |-> None,
      organisation |-> Some([name |-> NameAB, acn |-> None]),
      associate |-> Some(l)] :
        t \in {"PTSH", "USTR", "JV"},
        l \in AssociateLists(1, AssociateData)
                \cup LongAssociateLists(MaxAssoc - 1, SimpleAssociateData)
                \cup LongAssociateLists(MaxAssoc, SimpleAssociateData)}

InitProgress ==
    /\ data \in ProgressInputs
    /\ self = None
    /\ pc = "fields"
    /\ i = 1
    /\ errors = <<>>
    /\ classified = <<>>
    /\ round = 1

\* The validation is one sequential call that waits for nothing: a step
\* that can be taken is taken.
FairSpec == InitProgress /\ [][Next]_vars /\ WF_vars(Next)

(***************************************************************************)
(* The validations of two records, their steps interleaved.  A validation  *)
(* reads and writes its own record, position and errors only: the          *)
(* validators are methods on self, and what they share (the classes, the   *)
(* lists of asic_enums) is never written.  In SpecConcurrent every         *)
(* variable holds one value per validation.                                *)
(***************************************************************************)
\* One step of a validation in state s: what the actions of Next do, as a
\* function of the state of that validation.
ValidationStep(s) ==
    IF s.pc = "fields"
      THEN IF IsSet(s.data.associate) /\ s.i <= Len(Val(s.data.associate))
             THEN [s EXCEPT
                     !.errors = @ \o At(s.i - 1,
                                        Associate_model_validate(Val(s.data.associate)[s.i])),
                     !.classified = Append(@, Classified(Val(s.data.associate)[s.i])),
                     !.i = @ + 1]
           ELSE IF s.errors = <<>>
             THEN [s EXCEPT !.self = Some(BusinessEntityLodgeType(s.data)),
                            !.pc = "owner_type_rules"]
           ELSE [s EXCEPT !.pc = "done"]
    ELSE IF s.pc = "owner_type_rules"
      THEN IF OwnerTypeRuleSet(Val(s.self)) # <<>>
             THEN [s EXCEPT !.errors = OwnerTypeRuleSet(Val(s.self)), !.pc = "done"]
           ELSE IF ValidatesPartners(Val(s.self))
             THEN [s EXCEPT !.pc = "partners", !.i = 1]
           ELSE [s EXCEPT !.pc = "cross_field"]
    ELSE IF s.pc = "partners"
      THEN IF IsSet(Val(s.self).associate) /\ s.i <= Len(Val(Val(s.self).associate))
             THEN IF ValidatePartnerAgain(Val(s.self).ownerType, Val(s.self), s.i) # <<>>
                    THEN [s EXCEPT
                            !.errors = ValidatePartnerAgain(Val(s.self).ownerType,
                                                            Val(s.self), s.i),
                            !.pc = "done"]
                    ELSE [s EXCEPT !.i = @ + 1]
             ELSE [s EXCEPT !.pc = "cross_field"]
    ELSE IF s.pc = "cross_field"
      THEN [s EXCEPT !.errors = validate_cross_field_relationships(Val(s.self)),
                     !.pc = "done"]
    ELSE s

\* The state of the one validation of Spec.
ValidationState ==
    [data |-> data, self |-> self, pc |-> pc, i |-> i,
     errors |-> errors, classified |-> classified]

\* Under Spec, every step of Next but Revalidate is ValidationStep.
StepAgreement ==
    [][Revalidate \/ (ValidationState' = ValidationStep(ValidationState))]_vars

Threads == {1, 2}

NoRepsPartner ==
    [abrEntity |-> [abn |-> Some(ABN), entityName |-> None],
     individual |-> None,
     organisation |-> Some([name |-> NameC, acn |-> None]),
     partnerAssociate |-> None]

\* A few records of every outcome.
ConcurrentInputs ==
    {d \in NameInputs :
        /\ Val(d.abrEntity).entityName \in {Some(NameAB), Some(<<"A", " ", "b">>)}
        /\ IsSet(d.organisation) => Val(d.organisation).name = NameAB
        /\ IsSet(d.individual) => Val(d.individual) = PersonAB}
      \cup
    {[ownerType |-> "PTSH",
      abrEntity |-> Some([abn |-> Some(ABN), entityName |-> Some(NameAB)]),
      abnExemption |-> None,
      individual |-> None,
      organisation |-> Some([name |-> NameAB, acn |-> None]),
      associate |-> Some(l)] :
        l \in AssociateLists(2, {IndividualPartner, UnincorporatedPartner, NoRepsPartner})
                \cup AssociateLists(3, {UnincorporatedPartner, NoRepsPartner})}

InitConcurrent ==
    /\ data \in [Threads -> ConcurrentInputs]
    /\ self = [t \in Threads |-> None]
    /\ pc = [t \in Threads |-> "fields"]
    /\ i = [t \in Threads |-> 1]
    /\ errors = [t \in Threads |-> <<>>]
    /\ classified = [t \in Threads |-> <<>>]
    /\ round = 1

\* The state of the validation of thread t.
ThreadState(t) ==
    [data |-> data[t], self |-> self[t], pc |-> pc[t], i |-> i[t],
     errors |-> errors[t], classified |-> classified[t]]

\* ThreadStep with one position of the loops for all threads.
ThreadStep_SharedCounter(t) ==
    /\ pc[t] # "done"
    /\ LET n == ValidationStep([ThreadState(t) EXCEPT !.i = i[1]])
       IN  /\ self' = [self EXCEPT ![t] = n.self]
           /\ pc' = [pc EXCEPT ![t] = n.pc]
           /\ i' = [i EXCEPT ![1] = n.i]
           /\ errors' = [errors EXCEPT ![t] = n.errors]
           /\ classified' = [classified EXCEPT ![t] = n.classified]
    /\ UNCHANGED <<data, round>>

\* Thread t takes the next step of its validation.
ThreadStep(t) ==
    /\ pc[t] # "done"
    /\ LET n == ValidationStep(ThreadState(t))
       IN  /\ self' = [self EXCEPT ![t] = n.self]
           /\ pc' = [pc EXCEPT ![t] = n.pc]
           /\ i' = [i EXCEPT ![t] = n.i]
           /\ errors' = [errors EXCEPT ![t] = n.errors]
           /\ classified' = [classified EXCEPT ![t] = n.classified]
    /\ UNCHANGED <<data, round>>

NextConcurrent == \E t \in Threads : ThreadStep(t)

SpecConcurrent == InitConcurrent /\ [][NextConcurrent]_vars

(***************************************************************************)
(* str.lower() and str.title() on sequences of characters.                 *)
(***************************************************************************)
UPPERCASE == <<"A", "B", "C", "D", "E", "F", "G", "H", "I", "J", "K", "L", "M",
               "N", "O", "P", "Q", "R", "S", "T", "U", "V", "W", "X", "Y", "Z">>
LOWERCASE == <<"a", "b", "c", "d", "e", "f", "g", "h", "i", "j", "k", "l", "m",
               "n", "o", "p", "q", "r", "s", "t", "u", "v", "w", "x", "y", "z">>

IsUpper(c) == \E k \in 1..Len(UPPERCASE) : UPPERCASE[k] = c
IsLower(c) == \E k \in 1..Len(LOWERCASE) : LOWERCASE[k] = c

lower_char(c) ==
    IF IsUpper(c) THEN LOWERCASE[CHOOSE k \in 1..Len(UPPERCASE) : UPPERCASE[k] = c] ELSE c
upper_char(c) ==
    IF IsLower(c) THEN UPPERCASE[CHOOSE k \in 1..Len(LOWERCASE) : LOWERCASE[k] = c] ELSE c

lower(s) == [k \in 1..Len(s) |-> lower_char(s[k])]

\* A letter that follows a letter is lowered, any other letter is raised.
title(s) ==
    [k \in 1..Len(s) |->
        IF k > 1 /\ (IsUpper(s[k - 1]) \/ IsLower(s[k - 1]))
          THEN lower_char(s[k]) ELSE upper_char(s[k])]

(***************************************************************************)
(* The countries: "Australia" and a sample of the other members of COUNTRY.*)
(***************************************************************************)
Australia == <<"A", "u", "s", "t", "r", "a", "l", "i", "a">>
Fiji == <<"F", "i", "j", "i">>
Chad == <<"C", "h", "a", "d">>

COUNTRY == {Australia, Fiji, Chad}

\* [c.lower() for c in COUNTRY]
COUNTRY_lower == {lower(c) : c \in COUNTRY}

australia == <<"a", "u", "s", "t", "r", "a", "l", "i", "a">>

(***************************************************************************)
(* The address of an individual, as data: which of its fields are given.   *)
(* physical: locality, state and postCode are given and well-formed;       *)
(* unstructured: addressLine1 and addressLine2 are given; countryGiven:    *)
(* the key "country" is in the data (its value may be null).               *)
(***************************************************************************)
AddressTypeData == {"GC", "GD"}

CountryData ==
    {None, Some(Australia), Some(lower(Australia)),
     Some(<<" ">> \o [k \in 1..Len(Australia) |-> upper_char(Australia[k])] \o <<" ">>),
     Some(Fiji), Some(lower(Fiji) \o <<" ">>), Some(Chad),
     Some(<<"O", "z">>), Some(<<>>)}

AddressData ==
    {d \in [type : AddressTypeData,
            physical : BOOLEAN,
            unstructured : BOOLEAN,
            countryGiven : BOOLEAN,
            country : CountryData,
            postalDeliveryType : Opt({<<"P", "O">>})] :
        ~d.countryGiven => d.country = None}

(***************************************************************************)
(* IndividualPhysicalAddressLodgeType: residential address in Australia.   *)
(* A field validator runs on a value that is given, null included, and not *)
(* on a field left out, which keeps its default None.                      *)
(***************************************************************************)
RequiredFields(given) == IF given THEN <<>> ELSE <<ValueError("Field required")>>

validate_type(v) ==
    IF v # "GC" THEN <<ValueError("type must be 'GC' (Residential address business names)")>>
    ELSE <<>>

IndividualPhysicalAddress_validate_country(v) ==
    IF IsSet(v) /\ lower(strip(Val(v))) # australia
      THEN <<ValueError("country must be 'Australia' for individual addresses")>>
      ELSE <<>>

validate_no_postal_delivery(a) ==
    IF IsSet(a.postalDeliveryType)
      THEN <<ValueError("postalDeliveryType is not allowed for individual residential addresses (type GC)")>>
      ELSE <<>>

IndividualPhysicalAddressLodgeType(d) ==
    [form |-> "physical",
     type |-> d.type,
     country |-> IF d.countryGiven THEN Some(Australia) ELSE None,
     postalDeliveryType |-> d.postalDeliveryType]

IndividualPhysicalAddress_model_validate(d) ==
    LET fieldErrors ==
            RequiredFields(d.physical) \o validate_type(d.type)
              \o (IF d.countryGiven
                    THEN IndividualPhysicalAddress_validate_country(OptionalStr(d.country))
                    ELSE <<>>)
    IN  IF fieldErrors # <<>> THEN fieldErrors
        ELSE validate_no_postal_delivery(IndividualPhysicalAddressLodgeType(d))

(***************************************************************************)
(* IndividualUnstructuredAddressLodgeType: residential address abroad.     *)
(***************************************************************************)
IndividualUnstructuredAddress_validate_country(v) ==
    IF IsSet(v)
      THEN IF lower(strip(Val(v))) = australia
             THEN <<ValueError("Use IndividualPhysicalAddressLodgeType for Australian addresses")>>
           ELSE IF lower(strip(Val(v))) \notin COUNTRY_lower
             THEN <<ValueError("country must be one of the defined countries")>>
           ELSE <<>>
      ELSE <<ValueError("country is required for unstructured addresses")>>

IndividualUnstructuredAddressLodgeType(d) ==
    [form |-> "unstructured",
     type |-> d.type,
     country |-> IF d.countryGiven THEN Some(title(ASICBaseModel_str(Val(d.country))))
                 ELSE None,
     postalDeliveryType |-> None]

IndividualUnstructuredAddress_model_validate(d) ==
    RequiredFields(d.unstructured) \o validate_type(d.type)
      \o (IF d.countryGiven
            THEN IndividualUnstructuredAddress_validate_country(OptionalStr(d.country))
            ELSE <<>>)

(***************************************************************************)
(* IndividualLodgeType.address: the union of the two address models.  A    *)
(* member that validates the data is taken; when both do, either may be.   *)
(***************************************************************************)
AddressMembers(d) ==
    (IF IndividualPhysicalAddress_model_validate(d) = <<>>
       THEN {IndividualPhysicalAddressLodgeType(d)} ELSE {})
      \cup
    (IF IndividualUnstructuredAddress_model_validate(d) = <<>>
       THEN {IndividualUnstructuredAddressLodgeType(d)} ELSE {})

\* validate_address_country_consistency that lets an address without
\* country through.
validate_address_country_consistency_NoneAllowed(individual) ==
    LET country == individual.address.country
    IN  IF individual.address.form = "physical"
          THEN IF TruthyStr(country) /\ lower(Val(country)) # australia
                 THEN <<ValueError("IndividualPhysicalAddressLodgeType is only for Australian addresses")>>
                 ELSE <<>>
          ELSE IF TruthyStr(country) /\ lower(Val(country)) = australia
                 THEN <<ValueError("IndividualUnstructuredAddressLodgeType is only for foreign addresses")>>
                 ELSE <<>>

\* Ensure address type matches country requirements.
validate_address_country_consistency(individual) ==
    LET country == individual.address.country
    IN  IF individual.address.form = "physical"
          THEN IF ~TruthyStr(country) \/ lower(Val(country)) # australia
                 THEN <<ValueError("IndividualPhysicalAddressLodgeType is only for Australian addresses")>>
                 ELSE <<>>
          ELSE IF ~TruthyStr(country) \/ lower(Val(country)) = australia
                 THEN <<ValueError("IndividualUnstructuredAddressLodgeType is only for foreign addresses")>>
                 ELSE <<>>

(***************************************************************************)
(* The validation of one individual, IndividualLodgeType.model_validate,   *)
(* for data whose name and birth details are in order.                     *)
(***************************************************************************)
InitIndividual ==
    /\ data \in AddressData
    /\ self = None
    /\ pc = "address"
    /\ i = 1
    /\ errors = <<>>
    /\ classified = <<>>
    /\ round = 1

\* Field "address": no member of the union validates the data.
AddressRejected ==
    /\ pc = "address"
    /\ AddressMembers(data) = {}
    /\ errors' = IndividualPhysicalAddress_model_validate(data)
                   \o IndividualUnstructuredAddress_model_validate(data)
    /\ pc' = "done"
    /\ UNCHANGED <<data, self, i, classified, round>>

\* Field "address": a member of the union validates the data.
AddressValidated ==
    /\ pc = "address"
    /\ \E a \in AddressMembers(data) : self' = Some([address |-> a])
    /\ pc' = "address_country_consistency"
    /\ UNCHANGED <<data, i, errors, classified, round>>

ValidateAddressCountryConsistency ==
    /\ pc = "address_country_consistency"
    /\ errors' = validate_address_country_consistency(Val(self))
    /\ pc' = "done"
    /\ UNCHANGED <<data, self, i, classified, round>>

NextIndividual ==
    \/ AddressRejected
    \/ AddressValidated
    \/ ValidateAddressCountryConsistency

SpecIndividual == InitIndividual /\ [][NextIndividual]_vars

(***************************************************************************)
(* Outcomes.                                                               *)
(***************************************************************************)
Done == pc = "done"
Accepted == Done /\ errors = <<>>
Rejected == Done /\ errors # <<>>
RejectedWith(code) == Done /\ Len(errors) = 1 /\ errors[1].code = code /\ errors[1].loc = <<>>

TypeOK ==
    /\ pc \in {"fields", "owner_type_rules", "partners", "cross_field", "done"}
    /\ i \in 1..(MaxAssoc + 1)
    /\ round \in 1..MaxRounds
    /\ round = 1 => data \in Inputs

(***************************************************************************)
(* Vocabulary of the properties.                                           *)
(***************************************************************************)
\* The record as stored (strings stripped).
Rec == BusinessEntityLodgeType(data)

Assocs == IF IsSet(data.associate) THEN Val(data.associate) ELSE <<>>

\* Every nested record passed its own validation: the instance exists.
NestedValid == IsSet(self)

\* The associate list is absent or empty.
NoAssociates == Len(Assocs) = 0

\* The individual's "given family" name is the entity name.
IndividualNameIsEntityName ==
    /\ IsSet(Rec.individual)
    /\ IsSet(Rec.abrEntity)
    /\ IsSet(Val(Rec.abrEntity).entityName)
    /\ Val(Rec.individual).name.givenNames \o <<" ">> \o Val(Rec.individual).name.familyName
         = Val(Val(Rec.abrEntity).entityName)

\* The organisation's name is the entity name, where both are given.
OrganisationNameIsEntityName ==
    (IsSet(Rec.abrEntity) /\ IsSet(Rec.organisation) /\ IsSet(Val(Rec.abrEntity).entityName))
        => Val(Rec.organisation).name = Val(Val(Rec.abrEntity).entityName)

OrgHasAcn == IsSet(data.organisation) /\ IsSet(Val(data.organisation).acn)
OrgWithoutAcn == IsSet(data.organisation) /\ ~IsSet(Val(data.organisation).acn)

\* The two sides of the joint-venture exclusive-or.
AbnPresent == IsSet(data.abrEntity) /\ IsSet(Val(data.abrEntity).abn)
Exempt == data.abnExemption = Some(TRUE)

(***************************************************************************)
(* C1: an IND record with abrEntity and individual present, organisation   *)
(* absent, no associates and the individual's "given family" name equal to *)
(* the entity name is accepted; with abrEntity removed it is rejected with *)
(* IND_ABR_REQUIRED, with individual removed with IND_INDIVIDUAL_REQUIRED, *)
(* with one valid associate added with IND_NO_ASSOCIATES, with an          *)
(* organisation added with IND_NO_ORGANISATION.                            *)
(***************************************************************************)
C1_IndRuleSet ==
    (Done /\ data.ownerType = "IND" /\ NestedValid) =>
        /\ (IsSet(data.abrEntity) /\ IndividualNameIsEntityName
              /\ ~IsSet(data.organisation) /\ NoAssociates) => Accepted
        /\ (~IsSet(data.abrEntity) /\ IsSet(data.individual)
              /\ ~IsSet(data.organisation) /\ NoAssociates)
             => RejectedWith("IND_ABR_REQUIRED")
        /\ (IsSet(data.abrEntity) /\ ~IsSet(data.individual)
              /\ ~IsSet(data.organisation) /\ NoAssociates)
             => RejectedWith("IND_INDIVIDUAL_REQUIRED")
        /\ (IsSet(data.abrEntity) /\ IndividualNameIsEntityName
              /\ ~IsSet(data.organisation) /\ Len(Assocs) = 1)
             => RejectedWith("IND_NO_ASSOCIATES")
        /\ (IsSet(data.abrEntity) /\ IndividualNameIsEntityName
              /\ IsSet(data.organisation) /\ NoAssociates)
             => RejectedWith("IND_NO_ORGANISATION")

C1_Witness ==
    /\ data.ownerType = "IND" /\ NestedValid
    /\ IsSet(data.abrEntity) /\ IndividualNameIsEntityName
    /\ ~IsSet(data.organisation) /\ Len(Assocs) = 1
    /\ RejectedWith("IND_NO_ASSOCIATES")

(***************************************************************************)
(* C2: a PTSH record that satisfies the other partnership rules (abrEntity *)
(* present, organisation present without ACN, no individual, consistent    *)
(* names, every associate valid) is rejected with PTSH_PARTNERS_REQUIRED   *)
(* when the associate list is absent or empty, accepted with 1 to 9        *)
(* associates, and rejected with PTSH_MAX_PARTNERS with 10 or more.        *)
(***************************************************************************)
PtshOtherRulesHold ==
    /\ data.ownerType = "PTSH" /\ NestedValid
    /\ IsSet(data.abrEntity) /\ OrgWithoutAcn /\ ~IsSet(data.individual)
    /\ OrganisationNameIsEntityName

C2_PtshPartnerCount ==
    (Done /\ PtshOtherRulesHold) =>
        /\ NoAssociates => RejectedWith("PTSH_PARTNERS_REQUIRED")
        /\ Len(Assocs) \in 1..9 => Accepted
        /\ Len(Assocs) >= 10 => RejectedWith("PTSH_MAX_PARTNERS")

C2_Witness == PtshOtherRulesHold /\ Len(Assocs) = 9 /\ Accepted

(***************************************************************************)
(* C3: a JV record that satisfies the other joint-venture rules            *)
(* (organisation present without ACN, no individual, exactly one of ABN    *)
(* and exemption, consistent names, every associate valid) is rejected     *)
(* with JV_PARTNERS_REQUIRED with no associate, with JV_MIN_PARTNERS with  *)
(* exactly one, and accepted with two or more.                             *)
(***************************************************************************)
JvOtherRulesHold ==
    /\ data.ownerType = "JV" /\ NestedValid
    /\ OrgWithoutAcn /\ ~IsSet(data.individual)
    /\ AbnPresent # Exempt
    /\ OrganisationNameIsEntityName

C4_JvAbnXorExempt ==
    (Done /\ data.ownerType = "JV" /\ NestedValid
          /\ IsSet(data.organisation) /\ Len(Assocs) >= 2) =>
        /\ RejectedWith("JV_ABN_OR_EXEMPT") <=> (~AbnPresent /\ ~Exempt)
        /\ RejectedWith("JV_ABN_AND_EXEMPT_CONFLICT") <=> (AbnPresent /\ Exempt)
        /\ (AbnPresent # Exempt) <=>
              (\A n \in 1..Len(errors) :
                  errors[n].code \notin {"JV_ABN_OR_EXEMPT", "JV_ABN_AND_EXEMPT_CONFLICT"})

C4_Witness ==
    /\ data.ownerType = "JV" /\ NestedValid
    /\ IsSet(data.organisation) /\ Len(Assocs) >= 2
    /\ IsSet(data.abrEntity) /\ ~AbnPresent /\ ~Exempt
    /\ RejectedWith("JV_ABN_OR_EXEMPT")

(***************************************************************************)
(* Vocabulary of the properties about associates and representatives.      *)
(***************************************************************************)
\* Associate k went through its field validation.
Visited(k) == k <= Len(classified)

\* The reported errors located at or below the location p.
ErrorsUnder(p) ==
    SelectSeq(errors, LAMBDA e : Len(e.loc) >= Len(p) /\ SubSeq(e.loc, 1, Len(p)) = p)

Codes(es) == [n \in 1..Len(es) |-> es[n].code]

\* The codes reported for associate k, and for its representative j.
AssocCodes(k) == Codes(ErrorsUnder(<<k - 1>>))
RepCodes(k, j) == Codes(ErrorsUnder(<<k - 1, j - 1>>))

RepsOf(a) == IF IsSet(a.partnerAssociate) THEN Val(a.partnerAssociate) ELSE <<>>

AssocHasAbn(a) == IsSet(a.abrEntity.abn)

RepIsIndividualOnly(r) == IsSet(r.individual) /\ ~IsSet(r.organisation)
RepIsOrgWithAcn(r) ==
    ~IsSet(r.individual) /\ IsSet(r.organisation) /\ IsSet(Val(r.organisation).acn)
RepIsOrgWithoutAcn(r) ==
    ~IsSet(r.individual) /\ IsSet(r.organisation) /\ ~IsSet(Val(r.organisation).acn)

AllRepsGood(a) ==
    \A j \in 1..Len(RepsOf(a)) :
        RepIsIndividualOnly(RepsOf(a)[j]) \/ RepIsOrgWithAcn(RepsOf(a)[j])

IndividualShape(a) == IsSet(a.individual) /\ ~IsSet(a.organisation)
IncorporatedShape(a) ==
    ~IsSet(a.individual) /\ IsSet(a.organisation) /\ IsSet(Val(a.organisation).acn)
UnincorporatedShape(a) ==
    ~IsSet(a.individual) /\ IsSet(a.organisation) /\ ~IsSet(Val(a.organisation).acn)

\* The rows of the per-classification table of the associates.
IndividualRow(a) == IndividualShape(a) /\ Len(RepsOf(a)) = 0 /\ AssocHasAbn(a)
IncorporatedRow(a) == IncorporatedShape(a) /\ Len(RepsOf(a)) = 0 /\ AssocHasAbn(a)
UnincorporatedRow(a) ==
    UnincorporatedShape(a) /\ Len(RepsOf(a)) > 0 /\ AllRepsGood(a) /\ AssocHasAbn(a)

(***************************************************************************)
(* C5: an associate with an organisation that has an ACN, no individual,   *)
(* an ABN and no representatives is "incorporated" and passes the          *)
(* associate validation; a PTSH or JV record that satisfies the other      *)
(* entries of the owner-type table and whose associates fit a row of the   *)
(* associate table, incorporated ones included, is accepted.               *)
(***************************************************************************)
C5_IncorporatedAssociatePasses ==
    /\ \A k \in 1..Len(Assocs) :
          (Visited(k) /\ IncorporatedRow(Assocs[k])) =>
              (classified[k] = "incorporated" /\ AssocCodes(k) = <<>>)
    /\ (/\ Done
        /\ \A k \in 1..Len(Assocs) :
              IndividualRow(Assocs[k]) \/ IncorporatedRow(Assocs[k])
                \/ UnincorporatedRow(Assocs[k])
        /\ data.ownerType \in {"PTSH", "JV"}
        /\ OrgWithoutAcn /\ ~IsSet(data.individual) /\ OrganisationNameIsEntityName
        /\ data.ownerType = "PTSH" => (IsSet(data.abrEntity) /\ Len(Assocs) \in 1..9)
        /\ data.ownerType = "JV" => (AbnPresent # Exempt /\ Len(Assocs) >= 2))
       => Accepted

(***************************************************************************)
(* C6: an unincorporated associate (organisation without ACN, no           *)
(* individual) with an ABN is rejected with UNINC_ASSOC_REPS_REQUIRED when *)
(* its representative list is absent or empty; a representative that is an *)
(* organisation without ACN is reported with PARTNER_ASSOC_ORG_ACN; with a *)
(* non-empty list of representatives that are each an individual or an     *)
(* organisation with ACN it is accepted, and the same without ABN is       *)
(* rejected with UNINC_ASSOC_ABN.                                          *)
(***************************************************************************)
C6_UnincorporatedAssociate ==
    \A k \in 1..Len(Assocs) :
        (Visited(k) /\ UnincorporatedShape(Assocs[k])) =>
            LET a == Assocs[k]
            IN  /\ (AssocHasAbn(a) /\ Len(RepsOf(a)) = 0)
                     => AssocCodes(k) = <<"UNINC_ASSOC_REPS_REQUIRED">>
                /\ \A j \in 1..Len(RepsOf(a)) :
                      RepIsOrgWithoutAcn(RepsOf(a)[j]) =>
                          /\ RepCodes(k, j) = <<"PARTNER_ASSOC_ORG_ACN">>
                          /\ (\A m \in 1..Len(RepsOf(a)) :
                                 m # j => (RepIsIndividualOnly(RepsOf(a)[m])
                                             \/ RepIsOrgWithAcn(RepsOf(a)[m])))
                               => AssocCodes(k) = <<"PARTNER_ASSOC_ORG_ACN">>
                /\ (AssocHasAbn(a) /\ Len(RepsOf(a)) > 0 /\ AllRepsGood(a))
                     => AssocCodes(k) = <<>>
                /\ (~AssocHasAbn(a) /\ Len(RepsOf(a)) > 0 /\ AllRepsGood(a))
                     => AssocCodes(k) = <<"UNINC_ASSOC_ABN">>

C6_Witness ==
    \E k \in 1..Len(Assocs) :
        /\ Visited(k) /\ UnincorporatedShape(Assocs[k])
        /\ ~AssocHasAbn(Assocs[k]) /\ Len(RepsOf(Assocs[k])) = 2 /\ AllRepsGood(Assocs[k])
        /\ \E j \in 1..2 : RepIsOrgWithAcn(RepsOf(Assocs[k])[j])
        /\ AssocCodes(k) = <<"UNINC_ASSOC_ABN">>

(***************************************************************************)
(* C7: the check of a representative accepts iff exactly one of            *)
(* individual and organisation is set and a set organisation has an ACN;   *)
(* it rejects with PARTNER_ASSOC_REQUIRED when neither is set, with        *)
(* PARTNER_ASSOC_EXCLUSIVE when both are set (also when the organisation   *)
(* has no ACN), with PARTNER_ASSOC_ORG_ACN when only an organisation       *)
(* without ACN is set.                                                     *)
(***************************************************************************)
C7_RepresentativeCheck ==
    \A k \in 1..Len(Assocs) :
        Visited(k) =>
            \A j \in 1..Len(RepsOf(Assocs[k])) :
                LET r == RepsOf(Assocs[k])[j]
                    ind == IsSet(r.individual)
                    org == IsSet(r.organisation)
                IN  /\ RepCodes(k, j) = <<>>
                        <=> ((ind # org) /\ (org => IsSet(Val(r.organisation).acn)))
                    /\ (~ind /\ ~org) => RepCodes(k, j) = <<"PARTNER_ASSOC_REQUIRED">>
                    /\ (ind /\ org) => RepCodes(k, j) = <<"PARTNER_ASSOC_EXCLUSIVE">>
                    /\ RepIsOrgWithoutAcn(r) => RepCodes(k, j) = <<"PARTNER_ASSOC_ORG_ACN">>

C7_Witness ==
    \E k \in 1..Len(Assocs) :
        /\ Visited(k)
        /\ \E j \in 1..Len(RepsOf(Assocs[k])) :
              /\ IsSet(RepsOf(Assocs[k])[j].individual)
              /\ IsSet(RepsOf(Assocs[k])[j].organisation)
              /\ ~IsSet(Val(RepsOf(Assocs[k])[j].organisation).acn)
              /\ RepCodes(k, j) = <<"PARTNER_ASSOC_EXCLUSIVE">>

(***************************************************************************)
(* C8: the classification an associate's validator computes is a function  *)
(* of (individual present, organisation present, organisation.acn          *)
(* present): individual only -> individual, organisation only with ACN ->  *)
(* incorporated, organisation only without ACN -> unincorporated; with     *)
(* both or neither there is no classification, ASSOC_STRUCTURE is raised,  *)
(* and the record holding such an associate is never accepted.             *)
(***************************************************************************)
C8_ClassificationTotal ==
    \A k \in 1..Len(Assocs) :
        Visited(k) =>
            LET a == Assocs[k]
                ind == IsSet(a.individual)
                org == IsSet(a.organisation)
                acn == org /\ IsSet(Val(a.organisation).acn)
            IN  /\ classified[k] # "skipped" =>
                      classified[k] = IF ind /\ ~org THEN "individual"
                                      ELSE IF org /\ ~ind /\ acn THEN "incorporated"
                                      ELSE IF org /\ ~ind THEN "unincorporated"
                                      ELSE "ASSOC_STRUCTURE"
                /\ (ind = org) =>
                      /\ classified[k] \notin {"individual", "incorporated", "unincorporated"}
                      /\ classified[k] = "ASSOC_STRUCTURE" => AssocCodes(k) = <<"ASSOC_STRUCTURE">>
                      /\ AssocCodes(k) # <<>>
                      /\ ~Accepted

C8_Witness ==
    /\ Rejected
    /\ \E k \in 1..Len(Assocs) :
          /\ IsSet(Assocs[k].individual) /\ IsSet(Assocs[k].organisation)
          /\ classified[k] = "ASSOC_STRUCTURE"
          /\ AssocCodes(k) = <<"ASSOC_STRUCTURE">>

(***************************************************************************)
(* C9: an IB record with abrEntity present, organisation present with an   *)
(* ACN, no individual, no associates and consistent names is accepted;     *)
(* with one condition changed it is rejected with IB_ABR_REQUIRED          *)
(* (abrEntity absent), IB_ORGANISATION_REQUIRED (organisation absent),     *)
(* IB_NO_ASSOCIATES (valid associates added), IB_NO_INDIVIDUAL (individual *)
(* added), IB_ACN_REQUIRED (organisation without ACN).                     *)
(***************************************************************************)
C9_IbRuleSet ==
    (Done /\ data.ownerType = "IB" /\ NestedValid /\ OrganisationNameIsEntityName) =>
        /\ (IsSet(data.abrEntity) /\ OrgHasAcn /\ ~IsSet(data.individual) /\ NoAssociates)
             => Accepted
        /\ (~IsSet(data.abrEntity) /\ OrgHasAcn /\ ~IsSet(data.individual) /\ NoAssociates)
             => RejectedWith("IB_ABR_REQUIRED")
        /\ (IsSet(data.abrEntity) /\ ~IsSet(data.organisation)
              /\ ~IsSet(data.individual) /\ NoAssociates)
             => RejectedWith("IB_ORGANISATION_REQUIRED")
        /\ (IsSet(data.abrEntity) /\ OrgHasAcn /\ ~IsSet(data.individual) /\ ~NoAssociates)
             => RejectedWith("IB_NO_ASSOCIATES")
        /\ (IsSet(data.abrEntity) /\ OrgHasAcn /\ IsSet(data.individual) /\ NoAssociates)
             => RejectedWith("IB_NO_INDIVIDUAL")
        /\ (IsSet(data.abrEntity) /\ OrgWithoutAcn /\ ~IsSet(data.individual) /\ NoAssociates)
             => RejectedWith("IB_ACN_REQUIRED")

C9_Witness ==
    /\ data.ownerType = "IB" /\ NestedValid /\ OrganisationNameIsEntityName
    /\ IsSet(data.abrEntity) /\ OrgWithoutAcn /\ ~IsSet(data.individual) /\ NoAssociates
    /\ RejectedWith("IB_ACN_REQUIRED")

(***************************************************************************)
(* C10: a PTSH (resp. JV) record that satisfies the other rules of its     *)
(* owner type is rejected with PTSH_NO_ACN (JV_NO_ACN) when its            *)
(* organisation carries an ACN and with PTSH_NO_INDIVIDUAL                 *)
(* (JV_NO_INDIVIDUAL) when an individual is present; no accepted PTSH or   *)
(* JV record has organisation.acn or individual set.                       *)
(***************************************************************************)
C10_NoAcnNoIndividual ==
    /\ (Done /\ NestedValid /\ data.ownerType = "PTSH" /\ IsSet(data.abrEntity)
          /\ Len(Assocs) \in 1..9 /\ OrganisationNameIsEntityName) =>
          /\ (OrgHasAcn /\ ~IsSet(data.individual)) => RejectedWith("PTSH_NO_ACN")
          /\ (OrgWithoutAcn /\ IsSet(data.individual)) => RejectedWith("PTSH_NO_INDIVIDUAL")
    /\ (Done /\ NestedValid /\ data.ownerType = "JV" /\ AbnPresent # Exempt
          /\ Len(Assocs) >= 2 /\ OrganisationNameIsEntityName) =>
          /\ (OrgHasAcn /\ ~IsSet(data.individual)) => RejectedWith("JV_NO_ACN")
          /\ (OrgWithoutAcn /\ IsSet(data.individual)) => RejectedWith("JV_NO_INDIVIDUAL")
    /\ (Accepted /\ data.ownerType \in {"PTSH", "JV"}) =>
          (OrgWithoutAcn /\ ~IsSet(data.individual))

C10_Witness ==
    /\ NestedValid /\ data.ownerType = "JV" /\ AbnPresent # Exempt
    /\ Len(Assocs) >= 2 /\ OrganisationNameIsEntityName
    /\ OrgHasAcn /\ ~IsSet(data.individual)
    /\ RejectedWith("JV_NO_ACN")

(***************************************************************************)
(* Vocabulary of the properties about names, as the cross-field checks     *)
(* read them: a name counts when it is present and not empty.              *)
(***************************************************************************)
EntityNameGiven ==
    IsSet(Rec.abrEntity) /\ IsSet(Val(Rec.abrEntity).entityName)
        /\ Len(Val(Val(Rec.abrEntity).entityName)) > 0

OrganisationNameGiven == IsSet(Rec.organisation) /\ Len(Val(Rec.organisation).name) > 0

\* Entity name and organisation name are both given and differ.
OrganisationNameDiffers ==
    EntityNameGiven /\ OrganisationNameGiven
        /\ Val(Rec.organisation).name # Val(Val(Rec.abrEntity).entityName)

\* Every associate fits a row of the per-classification table.
EveryAssociateFitsTable ==
    \A k \in 1..Len(Assocs) :
        IndividualRow(Assocs[k]) \/ IncorporatedRow(Assocs[k]) \/ UnincorporatedRow(Assocs[k])

(***************************************************************************)
(* C11: a USTR record is accepted iff abrEntity is present, organisation   *)
(* is present (with or without ACN), individual is absent, there is at     *)
(* least one associate, every associate passes the associate rules (fits   *)
(* its row of the per-classification table) and the names are consistent;  *)
(* a single violation rejects with USTR_ABR_REQUIRED,                      *)
(* USTR_ORGANISATION_REQUIRED, USTR_TRUSTEES_REQUIRED, USTR_NO_INDIVIDUAL. *)
(***************************************************************************)
C11_UstrRuleSet ==
    (Done /\ data.ownerType = "USTR") =>
        /\ Accepted <=>
              (/\ IsSet(data.abrEntity) /\ IsSet(data.organisation)
               /\ ~IsSet(data.individual) /\ Len(Assocs) >= 1
               /\ EveryAssociateFitsTable
               /\ ~OrganisationNameDiffers)
        /\ (EveryAssociateFitsTable /\ NestedValid) =>
              /\ (~IsSet(data.abrEntity) /\ IsSet(data.organisation)
                    /\ ~IsSet(data.individual) /\ Len(Assocs) >= 1)
                   => RejectedWith("USTR_ABR_REQUIRED")
              /\ (IsSet(data.abrEntity) /\ ~IsSet(data.organisation)
                    /\ ~IsSet(data.individual) /\ Len(Assocs) >= 1)
                   => RejectedWith("USTR_ORGANISATION_REQUIRED")
              /\ (IsSet(data.abrEntity) /\ IsSet(data.organisation)
                    /\ ~IsSet(data.individual) /\ NoAssociates)
                   => RejectedWith("USTR_TRUSTEES_REQUIRED")
              /\ (IsSet(data.abrEntity) /\ IsSet(data.organisation)
                    /\ IsSet(data.individual) /\ Len(Assocs) >= 1)
                   => RejectedWith("USTR_NO_INDIVIDUAL")

\* The same for the records without an associate that fits the
\* "incorporated" row.
C11_UstrRuleSetWithoutIncorporated ==
    (\A k \in 1..Len(Assocs) : ~IncorporatedRow(Assocs[k])) => C11_UstrRuleSet

(***************************************************************************)
(* C12: in an accepted JV record with abnExemption true every associate    *)
(* has an ABN; a JV record with abnExemption true in which some associate  *)
(* has no ABN is rejected.                                                 *)
(***************************************************************************)
C12_ExemptJvPartnersHaveAbn ==
    (data.ownerType = "JV" /\ Exempt) =>
        /\ Accepted => \A k \in 1..Len(Assocs) : AssocHasAbn(Assocs[k])
        /\ (Done /\ \E k \in 1..Len(Assocs) : ~AssocHasAbn(Assocs[k])) => Rejected

C12_Witness ==
    /\ data.ownerType = "JV" /\ Exempt /\ Accepted
    /\ Len(Assocs) >= 2
    /\ \A k \in 1..Len(Assocs) : AssocHasAbn(Assocs[k])

\* An exempt JV record, otherwise in order, whose second associate has no ABN.
C12_RejectedWithoutAbn ==
    /\ data.ownerType = "JV" /\ Exempt /\ Rejected
    /\ IsSet(data.organisation) /\ ~IsSet(data.individual) /\ ~AbnPresent
    /\ Len(Assocs) >= 2
    /\ AssocHasAbn(Assocs[1]) /\ ~AssocHasAbn(Assocs[2])

(***************************************************************************)
(* C13 as stated: an individual associate (individual present,             *)
(* organisation absent) passes iff its partnerAssociate list is absent or  *)
(* empty and it has an ABN; any non-empty partnerAssociate list rejects    *)
(* with IND_ASSOC_NO_REPS, and a missing ABN rejects with IND_ASSOC_ABN.   *)
(***************************************************************************)
C13_IndividualAssociateAsStated ==
    \A k \in 1..Len(Assocs) :
        (Visited(k) /\ IndividualShape(Assocs[k])) =>
            LET a == Assocs[k]
            IN  /\ AssocCodes(k) = <<>> <=> (Len(RepsOf(a)) = 0 /\ AssocHasAbn(a))
                /\ Len(RepsOf(a)) > 0 => AssocCodes(k) = <<"IND_ASSOC_NO_REPS">>
                /\ (Len(RepsOf(a)) = 0 /\ ~AssocHasAbn(a))
                     => AssocCodes(k) = <<"IND_ASSOC_ABN">>

(***************************************************************************)
(* C13: an individual associate passes iff its partnerAssociate list is    *)
(* absent or empty and it has an ABN; a non-empty list of representatives  *)
(* that each pass their own check rejects with IND_ASSOC_NO_REPS, with or  *)
(* without ABN; a list holding a representative that fails its own check   *)
(* rejects with the codes of the failing representatives and not with      *)
(* IND_ASSOC_NO_REPS; an absent or empty list without ABN rejects with     *)
(* IND_ASSOC_ABN.                                                          *)
(***************************************************************************)
C13_IndividualAssociate ==
    \A k \in 1..Len(Assocs) :
        (Visited(k) /\ IndividualShape(Assocs[k])) =>
            LET a == Assocs[k]
                codes == AssocCodes(k)
            IN  /\ codes = <<>> <=> (Len(RepsOf(a)) = 0 /\ AssocHasAbn(a))
                /\ (Len(RepsOf(a)) > 0 /\ AllRepsGood(a))
                     => codes = <<"IND_ASSOC_NO_REPS">>
                /\ (Len(RepsOf(a)) > 0 /\ ~AllRepsGood(a))
                     => /\ codes # <<>>
                        /\ \A n \in 1..Len(codes) :
                              codes[n] \in {"PARTNER_ASSOC_REQUIRED",
                                            "PARTNER_ASSOC_EXCLUSIVE",
                                            "PARTNER_ASSOC_ORG_ACN"}
                        /\ \A j \in 1..Len(RepsOf(a)) :
                              (RepIsIndividualOnly(RepsOf(a)[j])
                                 \/ RepIsOrgWithAcn(RepsOf(a)[j]))
                                <=> RepCodes(k, j) = <<>>
                /\ (Len(RepsOf(a)) = 0 /\ ~AssocHasAbn(a))
                     => codes = <<"IND_ASSOC_ABN">>

C13_Witness ==
    \E k \in 1..Len(Assocs) :
        /\ Visited(k) /\ IndividualShape(Assocs[k])
        /\ Len(RepsOf(Assocs[k])) > 0 /\ AllRepsGood(Assocs[k])
        /\ ~AssocHasAbn(Assocs[k])
        /\ AssocCodes(k) = <<"IND_ASSOC_NO_REPS">>

(***************************************************************************)
(* Vocabulary of the properties about the cross-field checks, on the       *)
(* record as given.                                                        *)
(***************************************************************************)
\* The nested records and the owner-type rules passed: validation ended
\* accepting or in a cross-field check.
OwnerTypeRulesPassed ==
    /\ Done /\ NestedValid
    /\ \A n \in 1..Len(errors) :
          errors[n].code \in {"NAME_MISMATCH", "INDIVIDUAL_NAME_MISMATCH"}

BothNamesPresent ==
    /\ IsSet(data.abrEntity) /\ IsSet(Val(data.abrEntity).entityName)
    /\ IsSet(data.organisation)

TrimmedEntityName == strip(Val(Val(data.abrEntity).entityName))
TrimmedOrganisationName == strip(Val(data.organisation).name)

(***************************************************************************)
(* C14 as stated: once the owner-type rules pass, a record whose           *)
(* abrEntity.entityName and organisation.name are both present and differ  *)
(* after trimming is rejected with NAME_MISMATCH; when they are equal      *)
(* after trimming, or either is absent, NAME_MISMATCH is not reported.     *)
(***************************************************************************)
C14_NameMismatchAsStated ==
    OwnerTypeRulesPassed =>
        IF BothNamesPresent /\ TrimmedEntityName # TrimmedOrganisationName
          THEN RejectedWith("NAME_MISMATCH")
          ELSE ~RejectedWith("NAME_MISMATCH")

(***************************************************************************)
(* C14: once the owner-type rules pass, a record whose                     *)
(* abrEntity.entityName and organisation.name are both present, both not   *)
(* empty after trimming, and different after trimming (compared            *)
(* case-sensitively) is rejected with NAME_MISMATCH; when they are equal   *)
(* after trimming, or either is absent or empty after trimming,            *)
(* NAME_MISMATCH is not reported.                                          *)
(***************************************************************************)
C14_NameMismatch ==
    OwnerTypeRulesPassed =>
        IF /\ BothNamesPresent
           /\ TrimmedEntityName # <<>> /\ TrimmedOrganisationName # <<>>
           /\ TrimmedEntityName # TrimmedOrganisationName
          THEN RejectedWith("NAME_MISMATCH")
          ELSE ~RejectedWith("NAME_MISMATCH")

\* Names that differ by case only.
C14_Witness ==
    /\ OwnerTypeRulesPassed /\ BothNamesPresent
    /\ TrimmedEntityName = <<"A", " ", "b">> /\ TrimmedOrganisationName = <<"a", " ", "b">>
    /\ RejectedWith("NAME_MISMATCH")

\* An empty entity name next to an organisation name is let through.
C14_EmptyNameAccepted ==
    /\ OwnerTypeRulesPassed /\ BothNamesPresent
    /\ TrimmedEntityName = <<>> /\ TrimmedOrganisationName # <<>>
    /\ Accepted

(***************************************************************************)
(* Vocabulary of the properties about the individual's name.               *)
(***************************************************************************)
IndividualAndAbrEntityPresent == IsSet(data.individual) /\ IsSet(data.abrEntity)

\* "givenNames familyName" of the record's individual, trimmed.
TrimmedFullName ==
    strip(Val(Rec.individual).name.givenNames \o <<" ">>
            \o Val(Rec.individual).name.familyName)

EntityNamePresent == IsSet(data.abrEntity) /\ IsSet(Val(data.abrEntity).entityName)

FullNameIsEntityName == EntityNamePresent /\ TrimmedFullName = TrimmedEntityName

NeverIndividualNameMismatch ==
    \A n \in 1..Len(errors) : errors[n].code # "INDIVIDUAL_NAME_MISMATCH"

(***************************************************************************)
(* C15 as stated: an IND record with individual and abrEntity present is   *)
(* accepted only if the trimmed "givenNames familyName" equals the trimmed *)
(* abrEntity.entityName, and is otherwise (the owner-type rules having     *)
(* passed) rejected with INDIVIDUAL_NAME_MISMATCH; for the other owner     *)
(* types INDIVIDUAL_NAME_MISMATCH is never reported.                       *)
(***************************************************************************)
C15_IndividualNameAsStated ==
    /\ (data.ownerType = "IND" /\ IndividualAndAbrEntityPresent) =>
          /\ Accepted => FullNameIsEntityName
          /\ (OwnerTypeRulesPassed /\ ~FullNameIsEntityName)
               => RejectedWith("INDIVIDUAL_NAME_MISMATCH")
    /\ data.ownerType # "IND" => NeverIndividualNameMismatch

(***************************************************************************)
(* C15: an IND record with individual and abrEntity present, whose         *)
(* abrEntity.entityName is present and not empty after trimming and whose  *)
(* trimmed "givenNames familyName" is not empty, is accepted only if the   *)
(* two are equal, and is otherwise (the owner-type rules having passed)    *)
(* rejected with INDIVIDUAL_NAME_MISMATCH; when the entity name is absent  *)
(* or either name is empty after trimming the check does not reject; for   *)
(* the other owner types INDIVIDUAL_NAME_MISMATCH is never reported.       *)
(***************************************************************************)
C15_IndividualName ==
    /\ (data.ownerType = "IND" /\ IndividualAndAbrEntityPresent) =>
          LET compared == /\ EntityNamePresent
                          /\ TrimmedEntityName # <<>>
                          /\ TrimmedFullName # <<>>
          IN  /\ (Accepted /\ compared) => FullNameIsEntityName
              /\ OwnerTypeRulesPassed =>
                    IF compared /\ ~FullNameIsEntityName
                      THEN RejectedWith("INDIVIDUAL_NAME_MISMATCH")
                      ELSE Accepted
    /\ data.ownerType # "IND" => NeverIndividualNameMismatch

\* Names that differ by case only.
C15_Witness ==
    /\ data.ownerType = "IND" /\ IndividualAndAbrEntityPresent
    /\ OwnerTypeRulesPassed /\ EntityNamePresent
    /\ TrimmedFullName = <<"A", " ", "b">> /\ TrimmedEntityName = <<"a", " ", "b">>
    /\ RejectedWith("INDIVIDUAL_NAME_MISMATCH")

\* An IND record without entity name, or with an empty one, is accepted.
C15_AbsentEntityNameAccepted ==
    /\ data.ownerType = "IND" /\ IndividualAndAbrEntityPresent
    /\ ~EntityNamePresent /\ TrimmedFullName # <<>> /\ Accepted

C15_EmptyEntityNameAccepted ==
    /\ data.ownerType = "IND" /\ IndividualAndAbrEntityPresent
    /\ EntityNamePresent /\ TrimmedEntityName = <<>> /\ TrimmedFullName # <<>>
    /\ Accepted

\* Another owner type with individual and abrEntity present and names apart.
C15_OtherOwnerType ==
    /\ data.ownerType # "IND" /\ IndividualAndAbrEntityPresent /\ Done
    /\ EntityNamePresent /\ TrimmedEntityName # <<>> /\ TrimmedFullName # <<>>
    /\ ~FullNameIsEntityName

(***************************************************************************)
(* Vocabulary of the properties about the order of the checks: the checks  *)
(* of a rule set in their stated order, each with its violation on the     *)
(* record as given.                                                        *)
(***************************************************************************)
Check(violated, code) == [violated |-> violated, code |-> code]

PtshChecks ==
    << Check(~IsSet(data.abrEntity), "PTSH_ABR_REQUIRED"),
       Check(~IsSet(data.organisation), "PTSH_ORGANISATION_REQUIRED"),
       Check(NoAssociates, "PTSH_PARTNERS_REQUIRED"),
       Check(Len(Assocs) > PTSH_MAX_PARTNERS, "PTSH_MAX_PARTNERS"),
       Check(IsSet(data.individual), "PTSH_NO_INDIVIDUAL"),
       Check(OrgHasAcn, "PTSH_NO_ACN") >>

JvChecks ==
    << Check(~IsSet(data.organisation), "JV_ORGANISATION_REQUIRED"),
       Check(NoAssociates, "JV_PARTNERS_REQUIRED"),
       Check(Len(Assocs) < JV_MIN_PARTNERS, "JV_MIN_PARTNERS"),
       Check(~AbnPresent /\ ~Exempt, "JV_ABN_OR_EXEMPT"),
       Check(AbnPresent /\ Exempt, "JV_ABN_AND_EXEMPT_CONFLICT"),
       Check(OrgHasAcn, "JV_NO_ACN"),
       Check(IsSet(data.individual), "JV_NO_INDIVIDUAL"),
       Check(Exempt /\ \E k \in 1..Len(Assocs) : ~AssocHasAbn(Assocs[k]),
             "JV_EXEMPT_PARTNER_ABN") >>

Violated(checks) == {n \in 1..Len(checks) : checks[n].violated}

\* The record is rejected with the code of the first violated check.
FirstViolatedReported(checks) ==
    Violated(checks) # {} => RejectedWith(checks[Min(Violated(checks))].code)

(***************************************************************************)
(* C16 as stated: every rejected validation exposes exactly one rule code, *)
(* and a PTSH or JV record that violates a check of its rule set is        *)
(* rejected with the code of the first violated check in the stated order. *)
(***************************************************************************)
C16_OneRuleCodeAsStated ==
    /\ Rejected => Len(errors) = 1
    /\ (Done /\ data.ownerType = "PTSH") => FirstViolatedReported(PtshChecks)
    /\ (Done /\ data.ownerType = "JV") => FirstViolatedReported(JvChecks)

(***************************************************************************)
(* C16: a validation rejected by the record's own rules, its nested        *)
(* records being valid, exposes exactly one rule code, at the record       *)
(* itself; a PTSH or JV record with valid nested records that violates a   *)
(* check of its rule set is rejected with the code of the first violated   *)
(* check in the stated order, later violated checks not being reported.    *)
(* A validation rejected for its nested records exposes one code for each  *)
(* failing nested record, each located in that record, and no code of the  *)
(* record's own rules.                                                     *)
(***************************************************************************)
C16_OneRuleCode ==
    /\ (Rejected /\ NestedValid) => Len(errors) = 1 /\ errors[1].loc = <<>>
    /\ (Rejected /\ ~NestedValid) =>
          /\ \A n \in 1..Len(errors) : errors[n].loc # <<>>
          /\ \A n, m \in 1..Len(errors) : errors[n].loc = errors[m].loc => n = m
    /\ (Done /\ NestedValid /\ data.ownerType = "PTSH") => FirstViolatedReported(PtshChecks)
    /\ (Done /\ NestedValid /\ data.ownerType = "JV") => FirstViolatedReported(JvChecks)

\* A JV record that violates the no-ACN check and the later no-individual check.
C16_Witness ==
    /\ data.ownerType = "JV" /\ NestedValid
    /\ Violated(JvChecks) = {6, 7}
    /\ RejectedWith("JV_NO_ACN")

\* A PTSH record that violates three checks.
C16_PtshWitness ==
    /\ data.ownerType = "PTSH" /\ NestedValid
    /\ Violated(PtshChecks) = {1, 5, 6}
    /\ RejectedWith("PTSH_ABR_REQUIRED")

\* A rejection that exposes two codes.
C16_TwoCodes == Rejected /\ Len(errors) = 2

(***************************************************************************)
(* Vocabulary of the properties about wrapped errors.                      *)
(***************************************************************************)
RepIsGood(r) == RepIsIndividualOnly(r) \/ RepIsOrgWithAcn(r)

FailingReps(a) == {j \in 1..Len(RepsOf(a)) : ~RepIsGood(RepsOf(a)[j])}

\* The errors es are one error with this code, annotated with the 1-based
\* index n and holding an inner error.
IsWrapped(es, code, n) ==
    /\ Len(es) = 1
    /\ es[1].code = code /\ es[1].index = n /\ es[1].inner # <<>>

NeverReported(code) == \A n \in 1..Len(errors) : errors[n].code # code

(***************************************************************************)
(* C17: when entry j (counting from 1) of the partnerAssociate list of an  *)
(* unincorporated associate (with ABN) is the first that fails the         *)
(* representative check, the failure reported for that associate is        *)
(* UNINC_REP_INVALID annotated with j and holding the representative's     *)
(* error.                                                                  *)
(***************************************************************************)
C17_RepresentativeErrorWrapped ==
    \A k \in 1..Len(Assocs) :
        (/\ Visited(k) /\ UnincorporatedShape(Assocs[k]) /\ AssocHasAbn(Assocs[k])
         /\ FailingReps(Assocs[k]) # {})
            => IsWrapped(ErrorsUnder(<<k - 1>>), "UNINC_REP_INVALID",
                         Min(FailingReps(Assocs[k])))

\* What is reported instead: each failing representative j of associate k
\* with its own code at the 0-based position <<k - 1, j - 1>>, and
\* UNINC_REP_INVALID never.
C17_RepresentativeErrorUnwrapped ==
    /\ NeverReported("UNINC_REP_INVALID")
    /\ \A k \in 1..Len(Assocs) :
          (Visited(k) /\ UnincorporatedShape(Assocs[k])) =>
              \A j \in FailingReps(Assocs[k]) :
                  /\ Len(RepCodes(k, j)) = 1
                  /\ RepCodes(k, j)[1] \in {"PARTNER_ASSOC_REQUIRED",
                                            "PARTNER_ASSOC_EXCLUSIVE",
                                            "PARTNER_ASSOC_ORG_ACN"}

(***************************************************************************)
(* C18: when associate k (counting from 1) of a PTSH or JV record that     *)
(* violates no check of its rule set is the first that violates an         *)
(* associate rule, the error of the validation is PTSH_PARTNER_INVALID,    *)
(* respectively JV_PARTNER_INVALID, annotated with k and holding the       *)
(* associate's error.                                                      *)
(***************************************************************************)
C18_PartnerErrorWrapped ==
    (/\ Done
     /\ \/ data.ownerType = "PTSH" /\ Violated(PtshChecks) = {}
        \/ data.ownerType = "JV" /\ Violated(JvChecks) = {}) =>
        LET failing == {k \in 1..Len(Assocs) : AssocCodes(k) # <<>>}
        IN  failing # {} =>
               IsWrapped(errors,
                         IF data.ownerType = "PTSH" THEN "PTSH_PARTNER_INVALID"
                                                    ELSE "JV_PARTNER_INVALID",
                         Min(failing))

\* What is reported instead: the associate's own errors at the 0-based
\* position of the associate, and the two wrapping codes never.
C18_PartnerErrorUnwrapped ==
    /\ NeverReported("PTSH_PARTNER_INVALID") /\ NeverReported("JV_PARTNER_INVALID")
    /\ (Done /\ ~NestedValid) =>
          \A n \in 1..Len(errors) :
              /\ errors[n].loc # <<>> /\ errors[n].loc[1] \in 0..(Len(Assocs) - 1)
              /\ errors[n].index = 0 /\ errors[n].inner = <<>>

(***************************************************************************)
(* C19: validation is idempotent and free of side effects: a validation of *)
(* the dumped data of an accepted record ends accepting; the internal      *)
(* validation of a partner from its dump never ends the validation; no     *)
(* step of a validation, accepting or rejecting, changes the data it was   *)
(* given.                                                                  *)
(***************************************************************************)
C19_Idempotent ==
    /\ []((round > 1 /\ Done) => Accepted)
    /\ [][/\ pc # "done" => data' = data
          /\ pc = "partners" => pc' # "done"]_vars

\* A partnership with an unincorporated partner and its representative,
\* accepted again from its dump.
C19_Witness ==
    /\ round > 1 /\ Accepted
    /\ data.ownerType = "PTSH" /\ Len(Assocs) >= 2
    /\ \E k \in 1..Len(Assocs) :
          UnincorporatedShape(Assocs[k]) /\ Len(RepsOf(Assocs[k])) > 0

(***************************************************************************)
(* Vocabulary of the properties about the address of an individual.        *)
(***************************************************************************)
AddressOf == Val(self).address

\* The country declared in the data, without surrounding blanks.
DeclaredCountry == strip(Val(data.country))

CountryDeclared == data.countryGiven /\ IsSet(data.country)

DeclaredAustralia == CountryDeclared /\ lower(DeclaredCountry) = australia

DeclaredForeignMember ==
    /\ CountryDeclared
    /\ lower(DeclaredCountry) # australia
    /\ \E c \in COUNTRY : lower(c) = lower(DeclaredCountry)

(***************************************************************************)
(* C20 as stated: an individual is accepted only if its address form and   *)
(* its declared country agree: with a structured address the declared      *)
(* country is Australia, with an unstructured address it is a              *)
(* non-Australian member of the country set; a missing country is never    *)
(* accepted.                                                               *)
(***************************************************************************)
C20_AddressCountryAgreeAsStated ==
    Accepted =>
        /\ AddressOf.form = "physical" => DeclaredAustralia
        /\ AddressOf.form = "unstructured" => DeclaredForeignMember

(***************************************************************************)
(* C20: an individual is accepted only if its address form and its country *)
(* agree: a structured address is accepted only with the country declared  *)
(* as Australia (in any letter case) or given as null, and is then stored  *)
(* with country "Australia"; an unstructured address is accepted only with *)
(* a declared non-Australian member of the country set, stored in title    *)
(* case; data that leaves the country out is never accepted.  Data with    *)
(* the structured fields only, type GC and no postal delivery type is      *)
(* accepted iff its country is declared as Australia or given as null.     *)
(***************************************************************************)
C20_AddressCountryAgree ==
    /\ Accepted =>
          /\ data.countryGiven
          /\ AddressOf.form = "physical" =>
                /\ DeclaredAustralia \/ data.country = None
                /\ AddressOf.country = Some(Australia)
          /\ AddressOf.form = "unstructured" =>
                /\ DeclaredForeignMember
                /\ AddressOf.country = Some(title(DeclaredCountry))
                /\ \E c \in COUNTRY : lower(c) = lower(Val(AddressOf.country))
    /\ (/\ Done /\ data.physical /\ ~data.unstructured
        /\ data.type = "GC" /\ ~IsSet(data.postalDeliveryType)) =>
          (Accepted <=> (data.countryGiven /\ (DeclaredAustralia \/ data.country = None)))

\* A structured address with the country given as null is accepted.
C20_Witness ==
    /\ Accepted /\ AddressOf.form = "physical"
    /\ data.countryGiven /\ data.country = None
    /\ AddressOf.country = Some(Australia)

\* An unstructured address abroad, declared in lower case, is accepted.
C20_UnstructuredWitness ==
    /\ Accepted /\ AddressOf.form = "unstructured"
    /\ DeclaredCountry = lower(Fiji) /\ AddressOf.country = Some(Fiji)

\* A structured address that leaves the country out is rejected by the
\* consistency check.
C20_OmittedCountryRejected ==
    /\ Rejected /\ IsSet(self) /\ AddressOf.form = "physical" /\ ~data.countryGiven

(***************************************************************************)
(* The checks of the other rule sets in their order, and the checks of the *)
(* rule set of the record's owner type.                                    *)
(***************************************************************************)
IndChecks ==
    << Check(~IsSet(data.abrEntity), "IND_ABR_REQUIRED"),
       Check(~IsSet(data.individual), "IND_INDIVIDUAL_REQUIRED"),
       Check(~NoAssociates, "IND_NO_ASSOCIATES"),
       Check(IsSet(data.organisation), "IND_NO_ORGANISATION") >>

IbChecks ==
    << Check(~IsSet(data.abrEntity), "IB_ABR_REQUIRED"),
       Check(~IsSet(data.organisation), "IB_ORGANISATION_REQUIRED"),
       Check(~NoAssociates, "IB_NO_ASSOCIATES"),
       Check(IsSet(data.individual), "IB_NO_INDIVIDUAL"),
       Check(OrgWithoutAcn, "IB_ACN_REQUIRED") >>

UstrChecks ==
    << Check(~IsSet(data.abrEntity), "USTR_ABR_REQUIRED"),
       Check(~IsSet(data.organisation), "USTR_ORGANISATION_REQUIRED"),
       Check(NoAssociates, "USTR_TRUSTEES_REQUIRED"),
       Check(IsSet(data.individual), "USTR_NO_INDIVIDUAL") >>

OwnerTypeChecks ==
    IF data.ownerType = "IND" THEN IndChecks
    ELSE IF data.ownerType = "IB" THEN IbChecks
    ELSE IF data.ownerType = "PTSH" THEN PtshChecks
    ELSE IF data.ownerType = "USTR" THEN UstrChecks
    ELSE JvChecks

\* The record violates a name-consistency rule.
NamesDiffer ==
    /\ BothNamesPresent
    /\ TrimmedEntityName # <<>> /\ TrimmedOrganisationName # <<>>
    /\ TrimmedEntityName # TrimmedOrganisationName

IndividualNameDiffers ==
    /\ data.ownerType = "IND" /\ IndividualAndAbrEntityPresent /\ EntityNamePresent
    /\ TrimmedEntityName # <<>> /\ TrimmedFullName # <<>>
    /\ TrimmedFullName # TrimmedEntityName

NameCodeReported ==
    ~NeverReported("NAME_MISMATCH") \/ ~NeverReported("INDIVIDUAL_NAME_MISMATCH")

(***************************************************************************)
(* C21 as stated: a record that violates both an owner-type rule and a     *)
(* name-consistency rule is rejected with the owner-type code, and a name  *)
(* code is reported only for records that satisfy their whole owner-type   *)
(* rule set.                                                               *)
(***************************************************************************)
C21_NamesAfterOwnerTypeAsStated ==
    /\ (Done /\ Violated(OwnerTypeChecks) # {} /\ (NamesDiffer \/ IndividualNameDiffers))
          => FirstViolatedReported(OwnerTypeChecks)
    /\ NameCodeReported => (NestedValid /\ Violated(OwnerTypeChecks) = {})

(***************************************************************************)
(* C21: the cross-field name checks run only after the owner-type rules    *)
(* pass: a record with valid nested records that violates both an          *)
(* owner-type rule and a name-consistency rule is rejected with the        *)
(* owner-type code; with an invalid nested record it is rejected with      *)
(* neither an owner-type code nor a name code; the cross-field checks are  *)
(* reached, and a name code is reported, only for records that satisfy     *)
(* their whole owner-type rule set, partner validation included.           *)
(***************************************************************************)
C21_NamesAfterOwnerType ==
    /\ (Done /\ Violated(OwnerTypeChecks) # {} /\ (NamesDiffer \/ IndividualNameDiffers))
          => /\ Rejected /\ ~NameCodeReported
             /\ NestedValid => FirstViolatedReported(OwnerTypeChecks)
             /\ ~NestedValid => \A n \in 1..Len(errors) : errors[n].loc # <<>>
    /\ (pc = "cross_field" \/ NameCodeReported) =>
          /\ NestedValid /\ Violated(OwnerTypeChecks) = {}
          /\ \A k \in 1..Len(Assocs) : AssocCodes(k) = <<>>

\* A partnership with an individual and names apart.
C21_Witness ==
    /\ data.ownerType = "PTSH" /\ NestedValid /\ NamesDiffer
    /\ Violated(PtshChecks) = {5}
    /\ RejectedWith("PTSH_NO_INDIVIDUAL")

\* A sole trader with an organisation whose name is not the entity name.
C21_IndWitness ==
    /\ data.ownerType = "IND" /\ NestedValid /\ NamesDiffer /\ IndividualNameDiffers
    /\ Violated(IndChecks) = {4}
    /\ RejectedWith("IND_NO_ORGANISATION")

(***************************************************************************)
(* The codes of the rule set of an owner type: those of its checks, and of *)
(* its partner validation.                                                 *)
(***************************************************************************)
ChecksOf(t) ==
    IF t = "IND" THEN IndChecks
    ELSE IF t = "IB" THEN IbChecks
    ELSE IF t = "PTSH" THEN PtshChecks
    ELSE IF t = "USTR" THEN UstrChecks
    ELSE JvChecks

RuleSetCodes(t) ==
    {ChecksOf(t)[n].code : n \in 1..Len(ChecksOf(t))}
      \cup (IF t = "PTSH" THEN {"PTSH_PARTNER_INVALID"}
            ELSE IF t = "JV" THEN {"JV_PARTNER_INVALID"} ELSE {})

\* The rejection was raised by the owner-type rule set: by a validator of
\* the record itself, and not by the cross-field checks.
RejectedByRuleSet ==
    /\ Rejected /\ NestedValid /\ ~NameCodeReported

(***************************************************************************)
(* C22: the dispatch on ownerType is exhaustive and exclusive: the owner   *)
(* type is one of the five; a validation ends either accepted, with the    *)
(* record and no error, or rejected with a code, and nothing between; a    *)
(* rejection raised by the owner-type rule set carries one code, which is  *)
(* a code of the rule set of the record's own owner type and of no other;  *)
(* the partner loop runs for PTSH and JV only.                             *)
(***************************************************************************)
C22_DispatchExhaustiveExclusive ==
    /\ data.ownerType \in {"IND", "IB", "PTSH", "USTR", "JV"}
    /\ Done => \/ Accepted /\ ~Rejected /\ IsSet(self)
               \/ Rejected /\ ~Accepted /\ \A n \in 1..Len(errors) : errors[n].code # ""
    /\ RejectedByRuleSet =>
          /\ Len(errors) = 1
          /\ errors[1].code \in RuleSetCodes(data.ownerType)
          /\ \A t \in {"IND", "IB", "PTSH", "USTR", "JV"} \ {data.ownerType} :
                errors[1].code \notin RuleSetCodes(t)
    /\ pc = "partners" => data.ownerType \in {"PTSH", "JV"}

\* A trust with an individual and without trustees: the first of its own checks.
C22_Witness ==
    /\ data.ownerType = "USTR" /\ RejectedByRuleSet
    /\ Violated(UstrChecks) = {3, 4} /\ Violated(PtshChecks) = {3, 5}
    /\ RejectedWith("USTR_TRUSTEES_REQUIRED")

(***************************************************************************)
(* C23: the validation of a record always terminates, accepted or          *)
(* rejected: a validation that has started reaches its end; each step of   *)
(* the loop over the associates, and of the loop over the partners, moves  *)
(* to the next item of the list, so that an item is visited at most once   *)
(* per loop and the position never passes the end of the list by more than *)
(* one; the representatives of an associate are visited within the step of *)
(* their associate.                                                        *)
(***************************************************************************)
C23_Terminates ==
    /\ (pc = "fields") ~> Done
    /\ [](i \in 1..(Len(Assocs) + 1))
    /\ [](Len(classified) <= Len(Assocs))
    /\ [][/\ (pc = "fields" /\ pc' = "fields") => i' = i + 1
          /\ (pc = "partners" /\ pc' = "partners") => i' = i + 1
          /\ (pc = "partners" /\ pc' = "partners") => i <= Len(Assocs)]_vars

\* A joint venture of MaxAssoc partners went through both loops.
C23_Witness ==
    /\ Accepted /\ data.ownerType = "JV"
    /\ Len(Assocs) = MaxAssoc /\ Len(classified) = MaxAssoc


(***************************************************************************)
(* C24: interleaved validations.                                           *)
(***************************************************************************)
\* A validation of record d before its first step.
Start(d) ==
    [data |-> d, self |-> None, pc |-> "fields", i |-> 1,
     errors |-> <<>>, classified |-> <<>>]

RECURSIVE ValidateAlone(_)
\* The state in which a validation in state s ends when no other runs.
ValidateAlone(s) == IF s.pc = "done" THEN s ELSE ValidateAlone(ValidationStep(s))

\* C24: when the steps of the validations of two records are interleaved in
\* any order, each validation ends as it ends alone: in every state, what
\* thread t has done so far leads to the errors (none when accepted) and the
\* validated record of its record validated alone.
C24_InterleavingKeepsOutcome ==
    \A t \in Threads :
        LET alone == ValidateAlone(Start(data[t]))
            here == ValidateAlone(ThreadState(t))
        IN  /\ here.errors = alone.errors
            /\ here.self = alone.self
            /\ pc[t] = "done" => errors[t] = alone.errors

\* Both validations are under way at once, one in its second loop and the
\* other in its first, on different records with different outcomes.
C24_Witness ==
    /\ pc[1] = "partners" /\ i[1] = 2
    /\ pc[2] = "fields" /\ i[2] = 2
    /\ ValidateAlone(Start(data[1])).errors = <<>>
    /\ ValidateAlone(Start(data[2])).errors # <<>>


(***************************************************************************)
(* C25: the partner classification summary of an accepted record.          *)
(***************************************************************************)
\* The positions (from 1) of the unincorporated associates of the record.
UnincorporatedPositions ==
    {k \in 1..Len(Assocs) : partner_classification(AssociateLodgeType(Assocs[k])) = "unincorporated"}

PartnerSummary == get_partner_classification_summary(Val(self))

\* C25: for every accepted record the summary has total_partners = number
\* of associates (only the key total_partners, with 0, when the list is absent
\* or empty), the three counts add up to total_partners, and
\* unincorporated_details has exactly one entry per unincorporated associate,
\* in list order, with representative_count = the length of that associate's
\* partnerAssociate and has_representatives true.
C25_SummaryCounts ==
    Accepted =>
        IF Len(Assocs) = 0
          THEN /\ DOMAIN PartnerSummary = {"total_partners"}
               /\ PartnerSummary.total_partners = 0
          ELSE LET s == PartnerSummary
                   details == s.unincorporated_details
               IN  /\ s.total_partners = Len(Assocs)
                   /\ s.individual_partners + s.incorporated_partners
                        + s.unincorporated_partners = s.total_partners
                   /\ Len(details) = Cardinality(UnincorporatedPositions)
                   /\ {details[n].partner_index + 1 : n \in 1..Len(details)}
                        = UnincorporatedPositions
                   /\ \A m, n \in 1..Len(details) :
                         m < n => details[m].partner_index < details[n].partner_index
                   /\ \A n \in 1..Len(details) :
                         LET a == Val(Val(self).associate)[details[n].partner_index + 1]
                         IN  /\ IsSet(a.partnerAssociate)
                             /\ details[n].representatives.representative_count
                                  = Len(Val(a.partnerAssociate))
                             /\ details[n].representatives.has_representatives = TRUE

\* An accepted record with two unincorporated associates after an individual
\* one, the first of them with two representatives.
C25_Witness ==
    /\ Accepted
    /\ Len(Assocs) = 4
    /\ PartnerSummary.individual_partners = 2
    /\ PartnerSummary.unincorporated_partners = 2
    /\ Len(PartnerSummary.unincorporated_details) = 2
    /\ PartnerSummary.unincorporated_details[1].partner_index = 1
    /\ PartnerSummary.unincorporated_details[1].representatives.representative_count = 2
    /\ PartnerSummary.unincorporated_details[2].representatives.representative_count = 1


(***************************************************************************)
(* C26: nested records before the owner-type rules.                        *)
(***************************************************************************)
AssociateRuleCodes ==
    {"ASSOC_STRUCTURE",
     "IND_ASSOC_NO_REPS", "IND_ASSOC_ABN",
     "INC_ASSOC_NO_REPS", "INC_ASSOC_ACN", "INC_ASSOC_ABN",
     "UNINC_ASSOC_REPS_REQUIRED", "UNINC_ASSOC_NO_ACN", "UNINC_ASSOC_ABN"}

\* Associate k, its representatives well-formed, violates an associate rule:
\* it fits no row of the per-classification table.
ViolatesAssociateRule(k) ==
    /\ AllRepsGood(Assocs[k])
    /\ ~(IndividualRow(Assocs[k]) \/ IncorporatedRow(Assocs[k])
           \/ UnincorporatedRow(Assocs[k]))

\* C26: when a record has an associate that violates an associate rule and
\* the record also violates an owner-type rule, the validation reports, for
\* that associate, the associate's own code (ASSOC_STRUCTURE, IND_ASSOC_*,
\* INC_ASSOC_*, UNINC_ASSOC_*), and no code of the owner-type rule set:
\* every reported error is located in the associate list.
C26_NestedBeforeOwnerType ==
    \A k \in 1..Len(Assocs) :
        (Done /\ ViolatesAssociateRule(k) /\ Violated(OwnerTypeChecks) # {}) =>
            /\ \E n \in 1..Len(errors) :
                  /\ errors[n].loc = <<k - 1>>
                  /\ errors[n].code \in AssociateRuleCodes
            /\ \A n \in 1..Len(errors) :
                  /\ errors[n].code \notin RuleSetCodes(data.ownerType)
                  /\ Len(errors[n].loc) >= 1
            /\ ~NestedValid

\* A finished PTSH record with more than 9 associates, one of them without
\* an ABN.
C26_Witness ==
    /\ Done /\ data.ownerType = "PTSH"
    /\ Len(Assocs) > PTSH_MAX_PARTNERS
    /\ \E k \in 1..Len(Assocs) :
          /\ ViolatesAssociateRule(k) /\ ~AssocHasAbn(Assocs[k])
          /\ IndividualShape(Assocs[k])
          /\ AssocCodes(k) = <<"IND_ASSOC_ABN">>

\* A finished IND record with one invalid associate.
C26_IndWitness ==
    /\ Done /\ data.ownerType = "IND"
    /\ Len(Assocs) = 1 /\ ViolatesAssociateRule(1)
    /\ Len(errors) = 1 /\ errors[1].code \in AssociateRuleCodes


(***************************************************************************)
(* C27: no entity name, no name check.                                     *)
(***************************************************************************)
EntityNameAbsentOrEmpty ==
    /\ IsSet(data.abrEntity)
    /\ ~IsSet(Val(data.abrEntity).entityName) \/ Val(Val(data.abrEntity).entityName) = <<>>

\* C27: the name-consistency checks never reject a record whose abrEntity
\* has no entityName or an empty one: no name code is reported for it, and
\* when its nested records are valid and its owner-type rules hold it is
\* accepted, whatever the name of its individual or organisation; so for an
\* IND record with an individual and for any record with an organisation.
C27_NoEntityNameNoNameCheck ==
    (Done /\ EntityNameAbsentOrEmpty) =>
        /\ ~NameCodeReported
        /\ (NestedValid /\ Violated(OwnerTypeChecks) = {}) => Accepted

\* An accepted IND record whose abrEntity has no entityName and whose
\* individual has a name.
C27_Witness ==
    /\ Accepted /\ data.ownerType = "IND"
    /\ IsSet(data.abrEntity) /\ ~IsSet(Val(data.abrEntity).entityName)
    /\ IsSet(data.individual) /\ TrimmedFullName # <<>>

\* An accepted record with an organisation name and an empty entityName.
C27_OrganisationWitness ==
    /\ Accepted /\ data.ownerType # "IND"
    /\ EntityNameAbsentOrEmpty /\ IsSet(Val(data.abrEntity).entityName)
    /\ OrganisationNameGiven


(***************************************************************************)
(* C28: the presence of abrEntity is enough for IND, IB, PTSH and USTR.    *)
(***************************************************************************)
\* The errors of the validation of record d: none when d is accepted.
Outcome(d) == ValidateAlone(Start(d)).errors

WithAbn(d, abn) == [d EXCEPT !.abrEntity = Some([Val(@) EXCEPT !.abn = abn])]
WithExemption(d, x) == [d EXCEPT !.abnExemption = x]

\* C28: for the owner types IND, IB, PTSH and USTR a finished record whose
\* abrEntity is present without an ABN is accepted when its nested records
\* are valid, it violates no other owner-type rule and its names are
\* consistent; the outcome of a record with abrEntity is the same with and
\* without an ABN in it, and the outcome of any record is the same for
\* abnExemption true, false and null.
C28_AbrEntityPresenceSuffices ==
    (Done /\ data.ownerType \in {"IND", "IB", "PTSH", "USTR"}) =>
        /\ (/\ IsSet(data.abrEntity) /\ ~AbnPresent
            /\ NestedValid /\ Violated(OwnerTypeChecks) = {}
            /\ ~NamesDiffer /\ ~IndividualNameDiffers) => Accepted
        /\ IsSet(data.abrEntity) =>
              \A abn \in AbnData : Outcome(WithAbn(data, abn)) = errors
        /\ \A x \in Opt(BOOLEAN) : Outcome(WithExemption(data, x)) = errors

\* An accepted USTR record without ABN whose abnExemption is false.
C28_Witness ==
    /\ Accepted /\ data.ownerType = "USTR"
    /\ IsSet(data.abrEntity) /\ ~AbnPresent
    /\ data.abnExemption = Some(FALSE)


(***************************************************************************)
(* C29: JV_EXEMPT_PARTNER_ABN is never reported.                           *)
(***************************************************************************)
\* C29: no validation reports JV_EXEMPT_PARTNER_ABN: every associate of a
\* record whose nested records passed their own validation, and so every
\* associate that reaches the owner-type rules of JV and its exemption
\* loop, carries an ABN.
C29_ExemptPartnerAbnNeverReported ==
    /\ NeverReported("JV_EXEMPT_PARTNER_ABN")
    /\ NestedValid => \A k \in 1..Len(Assocs) : AssocHasAbn(Assocs[k])

\* An exempt JV record without ABN has run the exemption loop over two or
\* more associates and is accepted.
C29_Witness ==
    /\ Accepted /\ data.ownerType = "JV"
    /\ Exempt /\ ~AbnPresent
    /\ Len(Assocs) >= JV_MIN_PARTNERS

(***************************************************************************)
(* C30: UNINC_ASSOC_NO_ACN is never reported.                              *)
(***************************************************************************)
\* C30: no validation reports UNINC_ASSOC_NO_ACN for any associate: an
\* associate classified "unincorporated" has an organisation without ACN.
C30_UnincorporatedNoAcnNeverReported ==
    /\ NeverReported("UNINC_ASSOC_NO_ACN")
    /\ \A k \in 1..Len(Assocs) :
          (Visited(k) /\ classified[k] = "unincorporated") =>
              (IsSet(Assocs[k].organisation) /\ ~TruthyStr(Val(Assocs[k].organisation).acn))

\* The unincorporated branch has run for an associate and rejected it with
\* another of its codes.
C30_Witness ==
    \E k \in 1..Len(Assocs) :
        /\ Visited(k) /\ classified[k] = "unincorporated"
        /\ AssocCodes(k) = <<"UNINC_ASSOC_REPS_REQUIRED">>

====
